---- MODULE Spec2Model ----
(***************************************************************************)
(* Model of server/scripts/optimize.py: the relationship evaluator, the    *)
(* candidate tester (test_prompt_on_topics / run_prompt), the exemplar     *)
(* extractor, the mutator and the optimization controller (optimize).      *)
(***************************************************************************)
EXTENDS Integers, Sequences, FiniteSets, TLC

VARIABLES
    pc,             \* position of optimize(): load, baseline, refine, mutate,
                    \* retest, save, done, aborted, crashed
    config,         \* CONFIG
    market_sets,    \* Dict[str, List[Market]] as the sequence of its values
    test_num,       \* test_prompt_on_topics: test cases handled in this run
    completion,     \* run_prompt: what the service produced for the last
                    \* test case
    results,        \* test_prompt_on_topics: results
    service_calls,  \* history: the run_prompt calls of this test run, each
                    \* with the prompt, the source and the candidates given
    all_good,       \* test_prompt_on_topics: all_good
    all_bad,        \* test_prompt_on_topics: all_bad
    good_examples,  \* optimize: good_examples (of the last finished test)
    bad_examples,   \* optimize: bad_examples  (of the last finished test)
    accuracy,       \* optimize: accuracy (of the last finished test)
    profit,         \* optimize: profit   (of the last finished test)
    iteration,      \* optimize: loop variable, 0 during the baseline
    new_prompt,     \* optimize: current_prompt / new_prompt under test
    changes,        \* optimize: changes
    iterations,     \* optimize: iterations (List[IterationResult])
    best_prompt,    \* optimize: best_prompt
    best_accuracy,  \* optimize: best_accuracy
    best_profit,    \* optimize: best_profit
    saved,          \* what BEST_PROMPT.txt and the report hold
    mutator_calls,  \* history: calls of mutate_prompt_with_llm so far
    fn_call         \* the last call of a function that is followed on its
                    \* own: its arguments and, once it has returned, its result

vars == <<pc, config, market_sets, test_num, completion, results, service_calls, all_good, all_bad,
          good_examples, bad_examples, accuracy, profit, iteration,
          new_prompt, changes, iterations, best_prompt, best_accuracy,
          best_profit, saved, mutator_calls, fn_call>>

(***************************************************************************)
(* Python floats are IEEE-754 binary64, held exactly: a float is the       *)
(* record [s, m, x] of its sign, its 53-bit significand and its exponent.  *)
(* The significand is a natural number kept as a little-endian sequence of *)
(* limbs below Base, so that no intermediate leaves the integers of the    *)
(* checker.  A float literal is the decimal fraction rounded to nearest,   *)
(* ties to even; + and / and * are the exact result rounded the same way,  *)
(* as the hardware does.  CPython's sum() adds left to right (up to 3.11;  *)
(* no compensation).                                                       *)
(***************************************************************************)
Min(a, b) == IF a < b THEN a ELSE b

Base == 32768

RECURSIVE NTrim(_)
NTrim(a) ==
    IF a # <<>> /\ a[Len(a)] = 0 THEN NTrim(SubSeq(a, 1, Len(a) - 1)) ELSE a

RECURSIVE NFromInt(_)
NFromInt(i) == IF i = 0 THEN <<>> ELSE <<i % Base>> \o NFromInt(i \div Base)

RECURSIVE NToInt(_)
NToInt(a) == IF a = <<>> THEN 0 ELSE a[1] + Base * NToInt(Tail(a))

Limb(a, i) == IF i <= Len(a) THEN a[i] ELSE 0

RECURSIVE NAddFrom(_, _, _, _)
NAddFrom(a, b, i, c) ==
    IF i > Len(a) /\ i > Len(b) THEN (IF c = 0 THEN <<>> ELSE <<c>>)
    ELSE <<(Limb(a, i) + Limb(b, i) + c) % Base>>
             \o NAddFrom(a, b, i + 1, (Limb(a, i) + Limb(b, i) + c) \div Base)

NAdd(a, b) == NAddFrom(a, b, 1, 0)

RECURSIVE NSubFrom(_, _, _, _)
NSubFrom(a, b, i, c) ==
    IF i > Len(a) THEN <<>>
    ELSE <<(Limb(a, i) - Limb(b, i) - c + Base) % Base>>
             \o NSubFrom(a, b, i + 1,
                         IF Limb(a, i) - Limb(b, i) - c < 0 THEN 1 ELSE 0)

NSub(a, b) == NTrim(NSubFrom(a, b, 1, 0))

RECURSIVE NCmpAt(_, _, _)
NCmpAt(a, b, i) ==
    IF i = 0 THEN 0
    ELSE IF a[i] > b[i] THEN 1 ELSE IF a[i] < b[i] THEN -1
    ELSE NCmpAt(a, b, i - 1)

NCmp(a, b) ==
    IF Len(a) > Len(b) THEN 1 ELSE IF Len(a) < Len(b) THEN -1
    ELSE NCmpAt(a, b, Len(a))

RECURSIVE NMulFrom(_, _, _, _)
NMulFrom(a, k, i, c) ==
    IF i > Len(a) THEN NFromInt(c)
    ELSE <<(a[i] * k + c) % Base>> \o NMulFrom(a, k, i + 1, (a[i] * k + c) \div Base)

NMul(a, k) == NTrim(NMulFrom(a, k, 1, 0))

\* floor(a / k), limbs from the top down; q collects the quotient and r the
\* running remainder.  With sticky, a remainder left over sets the lowest bit.
RECURSIVE NDivFrom(_, _, _, _, _, _)
NDivFrom(a, k, i, r, q, sticky) ==
    IF i = 0
    THEN NTrim(IF sticky /\ r # 0 /\ q[1] % 2 = 0
               THEN <<q[1] + 1>> \o Tail(q) ELSE q)
    ELSE NDivFrom(a, k, i - 1, (r * Base + a[i]) % k,
                  <<(r * Base + a[i]) \div k>> \o q, sticky)

NDiv(a, k) == IF a = <<>> THEN <<>> ELSE NDivFrom(a, k, Len(a), 0, <<>>, FALSE)
NDivSticky(a, k) == NDivFrom(a, k, Len(a), 0, <<>>, TRUE)

\* a * 2^s and floor(a / 2^s).
NShl(a, s) ==
    IF a = <<>> THEN <<>>
    ELSE [i \in 1..(s \div 15) |-> 0] \o NMul(a, 2^(s % 15))

NShr(a, s) == NDiv(SubSeq(a, s \div 15 + 1, Len(a)), 2^(s % 15))

\* Whether a has a 1 among its lowest s bits.
NLowBits(a, s) ==
    \/ \E i \in 1..Min(s \div 15, Len(a)) : a[i] # 0
    \/ Limb(a, s \div 15 + 1) % 2^(s % 15) # 0

RECURSIVE Bits(_)
Bits(v) == IF v = 0 THEN 0 ELSE 1 + Bits(v \div 2)

NBits(a) == IF a = <<>> THEN 0 ELSE 15 * (Len(a) - 1) + Bits(a[Len(a)])

NOdd(a) == Limb(a, 1) % 2 = 1

\* floor(a / 2^s) rounded to nearest, ties to even.
NShrRound(a, s) ==
    IF s = 0 THEN a
    ELSE IF    NOdd(NShr(a, s - 1))
            /\ (NLowBits(a, s - 1) \/ NOdd(NShr(a, s)))
         THEN NAdd(NShr(a, s), <<1>>)
         ELSE NShr(a, s)

\* A float is [s, m, x] with value s * m * 2^x: s the sign (0 for zero) and
\* m the 53-bit significand, 2^52 <= m < 2^53.
FZero == [s |-> 0, m |-> <<>>, x |-> 0]

Normal(s, m, x) ==
    IF NBits(m) = 54 THEN [s |-> s, m |-> NShr(m, 1), x |-> x + 1]
    ELSE [s |-> s, m |-> m, x |-> x]

\* The nearest binary64 (ties to even) to s * m * 2^x.
Round(s, m, x) ==
    IF s = 0 \/ m = <<>> THEN FZero
    ELSE IF NBits(m) <= 53
         THEN [s |-> s, m |-> NShl(m, 53 - NBits(m)), x |-> x - (53 - NBits(m))]
         ELSE Normal(s, NShrRound(m, NBits(m) - 53), x + NBits(m) - 53)

Sign(i) == IF i > 0 THEN 1 ELSE IF i < 0 THEN -1 ELSE 0
Abs(i) == IF i < 0 THEN -i ELSE i

\* An int as a float, and the float literal or int quotient num/den
\* (0.6 is Lit(6, 10)).
FInt(i) == Round(Sign(i), NFromInt(Abs(i)), 0)

\* a / k and a * k for a float a and a positive int k.
FDiv(a, k) == Round(a.s, NDivSticky(NShl(a.m, 45), k), a.x - 45)
FMul(a, k) == Round(a.s, NMul(a.m, k), a.x)

Lit(num, den) == FDiv(FInt(num), den)

\* The float literals of the scoring policy: 0.6 is Tenth[6], -0.5 Tenth[-5].
Tenth == [t \in -10..10 |-> Lit(t, 10)]

FNeg(a) == [a EXCEPT !.s = -a.s]

\* a + b: the operands brought to the smaller exponent, added exactly.
FAddAt(a, b, x) ==
    IF a.s = b.s
    THEN Round(a.s, NAdd(NShl(a.m, a.x - x), NShl(b.m, b.x - x)), x)
    ELSE IF NCmp(NShl(a.m, a.x - x), NShl(b.m, b.x - x)) >= 0
         THEN Round(a.s, NSub(NShl(a.m, a.x - x), NShl(b.m, b.x - x)), x)
         ELSE Round(b.s, NSub(NShl(b.m, b.x - x), NShl(a.m, a.x - x)), x)

FAdd(a, b) ==
    IF a.s = 0 THEN b ELSE IF b.s = 0 THEN a
    ELSE FAddAt(a, b, Min(a.x, b.x))

\* Comparison of two floats: -1, 0, 1.
FCmp(a, b) ==
    IF a.s # b.s THEN Sign(a.s - b.s)
    ELSE IF a.s = 0 THEN 0
    ELSE IF a.x # b.x THEN a.s * Sign(a.x - b.x)
    ELSE a.s * NCmp(a.m, b.m)

FGe(a, b) == FCmp(a, b) >= 0
FGt(a, b) == FCmp(a, b) > 0
FLt(a, b) == FCmp(a, b) < 0
FEq(a, b) == FCmp(a, b) = 0

\* format(a, ".<decimals>f"), or "+.<decimals>f" with plus: the text's sign
\* and its digits as a count of 10^-decimals units, the exact value rounded
\* to nearest, ties to even ("-0.0" keeps its sign).
Fixed(a, decimals, plus) ==
    [sign     |-> IF a.s < 0 THEN "-" ELSE IF plus THEN "+" ELSE "",
     units    |-> IF a.s = 0 THEN 0
                  ELSE IF a.x >= 0
                       THEN NToInt(NShl(NMul(a.m, 10^decimals), a.x))
                       ELSE NToInt(NShrRound(NMul(a.m, 10^decimals), -a.x)),
     decimals |-> decimals]

(***************************************************************************)
(* EVALUATION                                                              *)
(***************************************************************************)
Outcomes == {"YES", "NO", "PENDING"}

KnownRelationships ==
    {"IMPLIES", "CONTRADICTS", "SUBEVENT", "CONDITIONED_ON", "WEAK_SIGNAL"}

\* Variant: IMPLIES and CONDITIONED_ON read from the related market to the
\* source (the reading of the function's docstring).
evaluations_converse(source_yes, related_yes) ==
    [IMPLIES        |-> <<~related_yes \/ source_yes, Tenth[6], Tenth[-8]>>,
     CONTRADICTS    |-> <<source_yes # related_yes, Tenth[7], Tenth[-7]>>,
     SUBEVENT       |-> <<TRUE, Tenth[3], Tenth[0]>>,
     CONDITIONED_ON |-> <<~related_yes \/ source_yes, Tenth[5], Tenth[-6]>>,
     WEAK_SIGNAL    |-> <<source_yes = related_yes, Tenth[2], Tenth[-3]>>]

\* evaluations: relationship -> (condition, profit_if_true, profit_if_false)
evaluations(source_yes, related_yes) ==
    [IMPLIES        |-> <<~source_yes \/ related_yes, Tenth[6], Tenth[-8]>>,
     CONTRADICTS    |-> <<source_yes # related_yes, Tenth[7], Tenth[-7]>>,
     SUBEVENT       |-> <<TRUE, Tenth[3], Tenth[0]>>,
     CONDITIONED_ON |-> <<~source_yes \/ related_yes, Tenth[5], Tenth[-6]>>,
     WEAK_SIGNAL    |-> <<source_yes = related_yes, Tenth[2], Tenth[-3]>>]

\* (condition, profit_if_true, profit_if_false) -> (held, profit)
Evaluated(ev) == [held |-> ev[1], profit |-> IF ev[1] THEN ev[2] ELSE ev[3]]

\* Variant: an unknown relationship is scored as a WEAK_SIGNAL.
evaluate_relationship_lenient(source_outcome, related_outcome, relationship) ==
    Evaluated(evaluations(source_outcome = "YES", related_outcome = "YES")
                  [IF relationship \in KnownRelationships
                   THEN relationship ELSE "WEAK_SIGNAL"])

\* evaluate_relationship: (held, profit) of a claimed relationship.
evaluate_relationship(source_outcome, related_outcome, relationship) ==
    IF relationship \in DOMAIN evaluations(source_outcome = "YES",
                                           related_outcome = "YES")
    THEN Evaluated(evaluations(source_outcome = "YES", related_outcome = "YES")
                       [relationship])
    ELSE [held |-> FALSE, profit |-> Tenth[-5]]

\* Line 367, relationship in evaluations: a list or an object cannot be
\* hashed and the lookup raises TypeError.
Hashable(relationship) == relationship \notin {"LIST", "OBJECT"}

(***************************************************************************)
(* DATA: a Market is [id, outcome, question].                              *)
(* The generative service's answer to run_prompt is a record               *)
(*   [kind, related]: kind is what the call produced (a transport error,   *)
(*   an empty content, text that is no JSON, JSON that is no object, or an *)
(*   object) and related the object's "related" member, a JSON value       *)
(*   [type, items]: absent, null, zero (0, 0.0 or false), another number   *)
(*   (or true), or a list of entries.  An                                  *)
(*   entry is [obj, marketId, relationship, reasoning]; obj is FALSE for   *)
(*   an entry that is no JSON object.  marketId is a string that is not    *)
(*   empty, or one of the marks "ABSENT" (a missing key, "" or []), "NULL" *)
(*   (null, 0, false or {}), "NUMBER" (another number, or true), "LIST" (a *)
(*   list that is not empty) and "OBJECT" (an object that is not empty).   *)
(*   relationship is a string, or one of the marks "ABSENT" (a missing     *)
(*   key), "LIST" (a list) and "OBJECT" (an object); reasoning is a        *)
(*   string, empty for a missing key.  A null, a number or a boolean in    *)
(*   the place of a relationship, and a reasoning that is no string, are   *)
(*   not among the answers explored.                                       *)
(***************************************************************************)

EmptyList == [type |-> "list", items |-> <<>>]

\* bool(value) of a JSON value: None, 0 and [] are false.
Truthy(v) == v.type = "number" \/ (v.type = "list" /\ v.items # <<>>)

\* Lines 324-327, inside the try: len(related), then for the first two
\* entries r.get('marketId', 'NO_ID')[:20]; whether they raise (a string
\* and a list can be sliced).
DebugPrintRaises(related) ==
    /\ Truthy(related)
    /\ \/ related.type # "list"
       \/ \E k \in 1..Min(2, Len(related.items)) :
              \/ ~related.items[k].obj
              \/ related.items[k].marketId \in {"NULL", "NUMBER", "OBJECT"}

\* run_prompt: what it returns for the service's answer resp.  Every
\* exception of lines 308-328 is caught at 329 and [] is returned.
run_prompt(resp, debug) ==
    IF resp.kind # "object" THEN EmptyList
    ELSE LET related == IF resp.related.type = "absent" THEN EmptyList
                        ELSE resp.related
         IN  IF debug /\ DebugPrintRaises(related) THEN EmptyList ELSE related

\* Variant: every other item of the group is a candidate.
CandidatesUncut(markets, source, candidates_per_test) ==
    SelectSeq(markets, LAMBDA m : m.id # source.id)

\* candidates = [m for m in markets if m.id != source.id][:candidates_per_test]
Candidates(markets, source, candidates_per_test) ==
    LET others == SelectSeq(markets, LAMBDA m : m.id # source.id)
    IN  SubSeq(others, 1, Min(candidates_per_test, Len(others)))

\* candidate_map = {c.id: c for c in candidates}: membership and lookup
InCandidateMap(candidates, id) == \E k \in 1..Len(candidates) : candidates[k].id = id

CandidateMap(candidates, id) ==
    LET k == CHOOSE k \in 1..Len(candidates) :
                 /\ candidates[k].id = id
                 /\ \A l \in (k + 1)..Len(candidates) : candidates[l].id # id
    IN  candidates[k]

\* Line 415: an entry whose marketId is true and a key of the candidate
\* map is scored, any other is passed over.
Usable(pred, candidates) ==
    /\ pred.marketId \notin {"ABSENT", "NULL", "NUMBER", "LIST", "OBJECT"}
    /\ InCandidateMap(candidates, pred.marketId)

\* Lines 414-424, whether the handling of one entry raises: pred.get of an
\* entry that is no object (414); market_id not in candidate_map of a list
\* or an object, which cannot be hashed (415); market_id[:20] of a number
\* in the debug print of an entry that is passed over (417); and the lookup
\* of evaluate_relationship for a relationship that cannot be hashed (424).
EntryRaises(pred, candidates, debug) ==
    \/ ~pred.obj
    \/ pred.marketId \in {"LIST", "OBJECT"}
    \/ debug /\ pred.marketId = "NUMBER"
    \/ Usable(pred, candidates) /\ ~Hashable(pred.relationship)

\* Lines 413-434: whether the loop over raw_predictions raises
Raises(items, candidates, debug) ==
    \E k \in 1..Len(items) : EntryRaises(items[k], candidates, debug)

\* Lines 427-434: Prediction(...)
Prediction(source, related, relationship, reasoning, ev) ==
    [source |-> source, related |-> related, relationship |-> relationship,
     reasoning |-> reasoning, held |-> ev.held, profit |-> ev.profit]

\* Lines 419-434: one usable entry scored against the resolved outcomes
ScoreEntry(pred, source, candidates) ==
    LET related == CandidateMap(candidates, pred.marketId)
        relationship == IF pred.relationship = "ABSENT"
                        THEN "WEAK_SIGNAL" ELSE pred.relationship
    IN  Prediction(source, related, relationship, pred.reasoning,
                   evaluate_relationship(source.outcome, related.outcome,
                                         relationship))

\* Lines 413-434: predictions after the first k entries of raw_predictions
RECURSIVE ScorePredictions(_, _, _, _)
ScorePredictions(items, k, source, candidates) ==
    IF k = 0 THEN <<>>
    ELSE ScorePredictions(items, k - 1, source, candidates)
         \o (IF Usable(items[k], candidates)
             THEN <<ScoreEntry(items[k], source, candidates)>> ELSE <<>>)

\* Variant: a held prediction with a score of exactly 0.2 counts as good.
GoodExamplesInclusive(predictions) ==
    SelectSeq(predictions, LAMBDA p : p.held /\ FGe(p.profit, Tenth[2]))

\* Lines 436-439: the predictions appended to good_examples, bad_examples
GoodExamples(predictions) ==
    SelectSeq(predictions, LAMBDA p : p.held /\ FGt(p.profit, Tenth[2]))

\* Variant: every prediction that is not good is bad.
BadExamplesNotGood(predictions) ==
    SelectSeq(predictions, LAMBDA p : ~(p.held /\ FGt(p.profit, Tenth[2])))

BadExamples(predictions) == SelectSeq(predictions, LAMBDA p : ~p.held)

\* Variant: the sources of a group are taken from its last item backwards.
GroupTestsBackwards(g, markets, tests_per_topic) ==
    IF Len(markets) < 3 THEN <<>>
    ELSE [i \in 1..Min(tests_per_topic, Len(markets)) |-> <<g, Len(markets) + 1 - i>>]

\* Lines 384-391: the test cases of the g-th group, <<group, index>>
GroupTests(g, markets, tests_per_topic) ==
    IF Len(markets) < 3 THEN <<>>
    ELSE [i \in 1..Min(tests_per_topic, Len(markets)) |-> <<g, i>>]

\* The test cases of a run in the order of lines 383-389: <<group, index>>.
RECURSIVE TestCases(_, _, _)
TestCases(sets, g, tests_per_topic) ==
    IF g > Len(sets) THEN <<>>
    ELSE GroupTests(g, sets[g], tests_per_topic)
         \o TestCases(sets, g + 1, tests_per_topic)

(***************************************************************************)
(* Aggregates                                                              *)
(***************************************************************************)
RECURSIVE Flatten(_)
Flatten(res) ==
    IF res = <<>> THEN <<>> ELSE Head(res).predictions \o Flatten(Tail(res))

Held(preds) == SelectSeq(preds, LAMBDA p : p.held)

\* sum(p.profit for p in preds): 0 + p1 + p2 + ..., left to right
RECURSIVE SumProfit(_, _)
SumProfit(preds, k) ==
    IF k = 0 THEN FInt(0)
    ELSE FAdd(SumProfit(preds, k - 1), preds[k].profit)

\* Variant: an empty set of predictions counts as fully accurate.
AggregateAccuracyVacuous(preds) ==
    IF Len(preds) > 0 THEN FMul(Lit(Len(Held(preds)), Len(preds)), 100)
    ELSE Lit(100, 1)

\* Variant: the mean is taken over the held predictions only.
AggregateProfitOfHeld(preds) ==
    IF Len(Held(preds)) > 0
    THEN FDiv(SumProfit(Held(preds), Len(Held(preds))), Len(Held(preds)))
    ELSE Lit(0, 1)

\* (correct / total * 100) if total > 0 else 0
AggregateAccuracy(preds) ==
    IF Len(preds) > 0 THEN FMul(Lit(Len(Held(preds)), Len(preds)), 100)
    ELSE Lit(0, 1)

\* sum(p.profit ...) / total if total > 0 else 0
AggregateProfit(preds) ==
    IF Len(preds) > 0 THEN FDiv(SumProfit(preds, Len(preds)), Len(preds))
    ELSE Lit(0, 1)

\* TestResult.accuracy and TestResult.profit_score
TestResult_accuracy(r) ==
    IF r.predictions = <<>> THEN Lit(0, 1)
    ELSE FMul(Lit(Len(Held(r.predictions)), Len(r.predictions)), 100)

TestResult_profit_score(r) ==
    IF r.predictions = <<>> THEN Lit(0, 1)
    ELSE FDiv(SumProfit(r.predictions, Len(r.predictions)), Len(r.predictions))

(***************************************************************************)
(* STRINGS: a Python str is a TLA+ string, the sequence of its characters, *)
(* and the operations of str the program uses are defined on it.  The      *)
(* characters outside ASCII of the program's texts are written "+" (the    *)
(* check mark), "x" (the cross) and ">" (the arrow).                       *)
(***************************************************************************)
\* s[:n]
Slice(s, n) == SubSeq(s, 1, Min(n, Len(s)))

\* s[i:], for 0 <= i
From(s, i) == SubSeq(s, Min(i, Len(s)) + 1, Len(s))

\* The least number of a set of integers that is not empty
Least(at) == CHOOSE i \in at : \A j \in at : i <= j

\* s.find(t): the number of characters before the first occurrence of t in
\* s, or -1.  A place is looked at in full when its first character is the
\* first of t.
Find(s, t) ==
    IF t = "" THEN 0
    ELSE LET first == SubSeq(t, 1, 1)
             at == {i \in 1..(Len(s) - Len(t) + 1) :
                       /\ SubSeq(s, i, i) = first
                       /\ SubSeq(s, i, i + Len(t) - 1) = t}
         IN  IF at = {} THEN -1 ELSE Least(at) - 1

\* s.replace(old, new): the occurrences of old, found from left to right
\* without overlap, give way to new
RECURSIVE Replace(_, _, _)
ReplaceAt(s, old, new, i) ==
    IF i < 0 THEN s
    ELSE SubSeq(s, 1, i) \o new \o Replace(From(s, i + Len(old)), old, new)

Replace(s, old, new) == ReplaceAt(s, old, new, Find(s, old))

\* The characters str.isspace() holds of, among the characters a string
\* can be written with: the space, the tabulation, the line feed, the
\* carriage return, the form feed, the vertical tabulation (11), the file,
\* group, record and unit separators (28 to 31), the next line (133), the
\* space without break (160) and the ogham space mark (5760).  Those
\* without an escape are written as the character itself.  The sixteen
\* others of str.isspace() (8192 to 8202, 8232, 8233, 8239, 8287 and 12288)
\* cannot be written in a string, and no text of the model holds them.
VT == ""
FS == ""
GS == ""
RS == ""
US == ""
NEL == ""
NBSP == " "
OGHAM == " "

Whitespace ==
    {" ", "\t", "\n", "\r", "\f", VT, FS, GS, RS, US, NEL, NBSP, OGHAM}

\* s.strip()
Strip(s) ==
    LET at == {i \in 1..Len(s) : SubSeq(s, i, i) \notin Whitespace}
    IN  IF at = {} THEN ""
        ELSE SubSeq(s, CHOOSE i \in at : \A j \in at : i <= j,
                       CHOOSE i \in at : \A j \in at : i >= j)

\* str(n) of an integer n >= 0
RECURSIVE Str(_)
Str(n) ==
    IF n < 10 THEN SubSeq("0123456789", n + 1, n + 1)
    ELSE Str(n \div 10) \o SubSeq("0123456789", (n % 10) + 1, (n % 10) + 1)

\* "\n".join(lines)
RECURSIVE Join(_)
Join(lines) ==
    IF lines = <<>> THEN ""
    ELSE IF Len(lines) = 1 THEN lines[1]
    ELSE lines[1] \o "\n" \o Join(Tail(lines))

(***************************************************************************)
(* PROMPTS                                                                 *)
(***************************************************************************)
\* BASE_PROMPT, lines 160-204
BASE_PROMPT ==
    "You are a strategic prediction market analyst finding ACTIONABLE related bets.\n\n"
    \o "Source Market:\n"
    \o "- Question: {source_question}\n"
    \o "- Current Odds: {source_yes}% YES / {source_no}% NO\n"
    \o "- Description: {source_description}\n\n"
    \o "YOUR GOAL: Find markets where betting strategy changes based on beliefs about the source market.\n\n"
    \o "GOOD Related Markets:\n"
    \o "+ Markets with hedging opportunities (opposite positions reduce risk)\n"
    \o "+ Markets with arbitrage potential (related but mispriced)\n"
    \o "+ Markets with causal relationships (one outcome affects another)\n"
    \o "+ Markets with competitive odds (10-90% range, not extreme long shots)\n"
    \o "+ Markets where information advantage transfers\n\n"
    \o "BAD Related Markets:\n"
    \o "x Extreme long shots (<5% or >95%) - no trading opportunity\n"
    \o "x Same exact market in different words (redundant)\n"
    \o "x Weak correlations without clear reasoning\n"
    \o "x Markets from the same multi-outcome event (just partitions)\n\n"
    \o "Relationship Types:\n"
    \o "- IMPLIES: If this market YES > source YES\n"
    \o "- CONTRADICTS: If source YES > this market NO more likely\n"
    \o "- SUBEVENT: This event directly causes/prevents source outcome\n"
    \o "- CONDITIONED_ON: Source outcome is prerequisite for this market\n"
    \o "- WEAK_SIGNAL: Correlated indicator (only if odds are interesting)\n\n"
    \o "{few_shot_section}\n\n"
    \o "{warnings_section}\n\n"
    \o "Return JSON:\n"
    \o "{{\n"
    \o "  \"related\": [\n"
    \o "    {{\n"
    \o "      \"marketId\": \"id\",\n"
    \o "      \"relationship\": \"IMPLIES|CONTRADICTS|SUBEVENT|CONDITIONED_ON|WEAK_SIGNAL\",\n"
    \o "      \"reasoning\": \"Brief explanation\"\n"
    \o "    }}\n"
    \o "  ]\n"
    \o "}}\n\n"
    \o "Return empty array if no good opportunities: {{\"related\": []}}"

\* Lines 463-469: the text of one exemplar; the questions, the relationship
\* and the reasoning of the prediction are copied into it as they are.
Exemplar(i, p) ==
    "\nExample " \o Str(i) \o ":"
    \o "\nSource: \"" \o Slice(p.source.question, 80) \o "\""
    \o "\nRelated: \"" \o Slice(p.related.question, 80) \o "\""
    \o "\nRelationship: " \o p.relationship
    \o "\nReasoning: " \o p.reasoning
    \o "\n+ Source>" \o p.source.outcome \o ", Related>" \o p.related.outcome

\* Lines 462-469: the exemplars of the first k of chosen
RECURSIVE Exemplars(_, _)
Exemplars(chosen, k) ==
    IF k = 0 THEN <<>> ELSE Append(Exemplars(chosen, k - 1), Exemplar(k, chosen[k]))

\* Variant: the most recent max_examples predictions are rendered.
build_few_shot_section_latest(good, max_examples) ==
    IF good = <<>> THEN ""
    ELSE LET k == Min(Len(good), max_examples)
         IN  Join(<<"PROVEN EXAMPLES (validated against real outcomes):">>
                  \o Exemplars(SubSeq(good, Len(good) - k + 1, Len(good)), k))

\* build_few_shot_section
build_few_shot_section(good, max_examples) ==
    IF good = <<>> THEN ""
    ELSE LET k == Min(Len(good), max_examples)
         IN  Join(<<"PROVEN EXAMPLES (validated against real outcomes):">>
                  \o Exemplars(SubSeq(good, 1, k), k))

\* build_warnings_section: by_type in insertion order of its keys
RECURSIVE RelationshipTypes(_, _)
RelationshipTypes(bad, k) ==
    IF k = 0 THEN <<>>
    ELSE LET before == RelationshipTypes(bad, k - 1)
         IN  IF \E l \in 1..Len(before) : before[l] = bad[k].relationship
             THEN before ELSE Append(before, bad[k].relationship)

\* Lines 489-493 for the representative ex of a group: the line of the
\* type and the count, the line of the two questions, the outcomes line;
\* rel_type and the questions are copied as they are.
WarningOf(rel_type, examples, ex) ==
    <<"- " \o rel_type \o ": " \o Str(Len(examples)) \o " wrong predictions",
      "  Bad: \"" \o Slice(ex.source.question, 40) \o "\" > \""
          \o Slice(ex.related.question, 40) \o "\"",
      "  Reality: Source=" \o ex.source.outcome \o ", Related="
          \o ex.related.outcome>>

\* Variant: the representative of a group is its latest prediction.
WarningLatest(rel_type, examples) ==
    WarningOf(rel_type, examples, examples[Len(examples)])

\* Lines 489-493: the lines of one group; examples[0] is the representative.
Warning(rel_type, examples) == WarningOf(rel_type, examples, examples[1])

\* Lines 488-493: the lines of the groups of the first k relationship types
RECURSIVE Warnings(_, _, _)
Warnings(bad, types, k) ==
    IF k = 0 THEN <<>>
    ELSE Warnings(bad, types, k - 1)
         \o Warning(types[k], SelectSeq(bad, LAMBDA p : p.relationship = types[k]))

build_warnings_section(bad) ==
    IF bad = <<>> THEN ""
    ELSE LET types == RelationshipTypes(bad, Len(bad))
         IN  Join(<<"AVOID THESE MISTAKES:">> \o Warnings(bad, types, Len(types)))

\* Lines 556: current_prompt[:start] + improved_section.strip() + "\n\n"
\* + current_prompt[end:]
Splice(current_prompt, start, end, improved_section) ==
    SubSeq(current_prompt, 1, start) \o Strip(improved_section) \o "\n\n"
    \o From(current_prompt, end)

\* Variant: a text of any length is spliced in.
mutate_prompt_any_length(current_prompt, mresp) ==
    LET start == Find(current_prompt, "Relationship Types:")
        end   == Find(current_prompt, "Return JSON")
    IN  IF mresp.kind = "text" /\ start > 0 /\ end > start
        THEN Splice(current_prompt, start, end, mresp.body)
        ELSE current_prompt

\* mutate_prompt_with_llm for the service's answer mresp = [kind, body]:
\* kind "error" is a failed call, body is improved_section (the empty
\* string also for a content of None).
mutate_prompt_with_llm(current_prompt, mresp) ==
    LET start == Find(current_prompt, "Relationship Types:")
        end   == Find(current_prompt, "Return JSON")
    IN  IF mresp.kind = "text" /\ Len(mresp.body) > 100 /\ start > 0 /\ end > start
        THEN Splice(current_prompt, start, end, mresp.body)
        ELSE current_prompt

(***************************************************************************)
(* The inputs: configurations, fetched data, answers of the service        *)
(***************************************************************************)
MaxIterations == 2
MaxTriples == 2

Cfg(max_iterations, tests_per_topic, target_accuracy, target_profit_tenths) ==
    [max_iterations      |-> max_iterations,
     target_accuracy     |-> Lit(target_accuracy, 1),
     target_profit       |-> Lit(target_profit_tenths, 10),
     tests_per_topic     |-> tests_per_topic,
     candidates_per_test |-> 10,
     few_shot_examples   |-> 3]

\* CONFIG, lines 56-65: 4 rounds, 3 test cases per topic, targets 75.0, 0.3
CONFIG == Cfg(4, 3, 75, 3)

\* The configurations a run is explored under: CONFIG, CONFIG with a budget
\* of MaxIterations rounds of one test case per topic, and the targets
\* (50, 0) with a budget of one round of two test cases per topic.
Configs == {CONFIG, Cfg(MaxIterations, 1, 75, 3), Cfg(1, 2, 50, 0)}

\* A market whose question is spelled like its id
Market(id, outcome) == [id |-> id, outcome |-> outcome, question |-> id]

\* The market with another question
Asking(market, question) == [market EXCEPT !.question = question]

Group(o) == <<Market("m1", o[1]), Market("m2", o[2]), Market("m3", o[3]),
              Market("m4", o[4]), Market("m5", o[5])>>

GroupA == Group(<<"YES", "NO", "YES", "NO", "NO">>)
GroupB == Group(<<"NO", "NO", "YES", "YES", "NO">>)
SmallGroup == <<Market("m1", "YES"), Market("m2", "NO"), Market("m3", "NO"),
                Market("m4", "YES")>>

\* What fetch_markets_by_topic returned, topic by topic
Fetched == {<<>>, <<SmallGroup>>, <<GroupA>>, <<SmallGroup, GroupB>>}

\* {"marketId": id, "relationship": relationship, "reasoning": reasoning}
Reasoned(id, relationship, reasoning) ==
    [obj |-> TRUE, marketId |-> id, relationship |-> relationship,
     reasoning |-> reasoning]

\* The entry whose reasoning is "because"
Entry(id, relationship) == Reasoned(id, relationship, "because")

NonObject ==
    [obj |-> FALSE, marketId |-> "ABSENT", relationship |-> "ABSENT",
     reasoning |-> ""]

Failure(kind) == [kind |-> kind, related |-> [type |-> "absent", items |-> <<>>]]
Answer(type, items) == [kind |-> "object", related |-> [type |-> type, items |-> items]]

SeqsUpTo(S, n) == UNION {[1..k -> S] : k \in 0..n}

\* The answers a whole run of optimize() is explored with; the reasoning of
\* one of them holds the words of the output anchor
ControllerResponses ==
    {Failure("transport_error"),
     Answer("null", <<>>),
     Answer("list", <<Reasoned("m2", "CONTRADICTS", "both Return JSON fields")>>),
     Answer("list", <<Entry("m3", "WEAK_SIGNAL")>>),
     Answer("list", <<Entry("m2", "CONTRADICTS"), Entry("m3", "WEAK_SIGNAL")>>),
     Answer("list", <<Entry("m2", "CONTRADICTS"), Entry("m2", "WEAK_SIGNAL")>>),
     Answer("list", <<Entry("m2", "CONTRADICTS"), Entry("m4", "CONTRADICTS"),
                      Entry("m3", "OTHER")>>)}

\* The answers one test run is explored with: lists of up to MaxTriples
\* well-typed entries, and lists whose first, second or third entry is one
\* that is passed over or one with a value of another type
TesterEntries ==
    {NonObject, Entry("m1", "CONTRADICTS"), Entry("m3", "CONTRADICTS"),
     Entry("m3", "ABSENT"), Entry("zz", "CONTRADICTS"),
     Entry("ABSENT", "CONTRADICTS"), Entry("NULL", "CONTRADICTS")}
MistypedEntries ==
    {Entry("NUMBER", "CONTRADICTS"), Entry("LIST", "CONTRADICTS"),
     Entry("OBJECT", "CONTRADICTS"), Entry("m3", "LIST"), Entry("zz", "LIST")}
TesterResponses ==
    {Failure(k) : k \in {"transport_error", "empty_content", "bad_json", "not_object"}}
    \cup {Answer(t, <<>>) : t \in {"absent", "null", "zero", "number"}}
    \cup {Answer("list", s) : s \in SeqsUpTo(TesterEntries, MaxTriples)}
    \cup {Answer("list", SubSeq(<<Entry("m3", "CONTRADICTS"),
                                  Entry("zz", "CONTRADICTS")>>, 1, k) \o <<e>>) :
              k \in 0..2,
              e \in MistypedEntries \cup {Entry("zz", "CONTRADICTS"),
                                          Entry("NULL", "CONTRADICTS")}}

\* Under CONFIG a run makes up to five test runs of three test cases per
\* topic; it is explored with the answers of the second set, under the
\* smaller configurations with every answer of the first.
Answers(all, few) == IF config = CONFIG THEN few ELSE all

ConfigResponses ==
    {Answer("list", <<Entry("m2", "CONTRADICTS"), Entry("m4", "CONTRADICTS"),
                      Entry("m3", "OTHER")>>)}

TesterConfigResponses ==
    {Failure("transport_error"),
     Answer("zero", <<>>),
     Answer("list", <<NonObject>>),
     Answer("list", <<Entry("m3", "CONTRADICTS")>>),
     Answer("list", <<Entry("m1", "CONTRADICTS"), Entry("zz", "CONTRADICTS")>>)}

\* The text followed by "." up to n characters
RECURSIVE Padded(_, _)
Padded(text, n) == IF Len(text) >= n THEN text ELSE Padded(text \o ".", n)

\* The answers of the mutation service: a failed call, no text, and texts
\* of 40, 100 and 101 characters, the last one ending with a line feed
MutationResponses ==
    {[kind |-> "error", body |-> ""],
     [kind |-> "text", body |-> ""],
     [kind |-> "text", body |-> Padded("Relationship Types:\n- SHORT", 40)],
     [kind |-> "text", body |-> Padded("Relationship Types:\n- REWRITTEN", 100)],
     [kind |-> "text", body |-> Padded("Relationship Types:\n- REWRITTEN", 100) \o "\n"],
     [kind |-> "text",
      body |-> VT \o OGHAM \o Padded("Relationship Types:\n- REWRITTEN", 98)
               \o "\f" \o NBSP \o OGHAM]}

(***************************************************************************)
(* optimize()                                                              *)
(***************************************************************************)
NoCall == [fn |-> "none"]

NoCompletion == Failure("none")

Zero == Lit(0, 1)

NoReport == [written |-> FALSE]

Init ==
    /\ pc = "load"
    /\ config \in Configs
    /\ market_sets = <<>>
    /\ test_num = 0
    /\ completion = NoCompletion
    /\ results = <<>>
    /\ service_calls = <<>>
    /\ all_good = <<>>
    /\ all_bad = <<>>
    /\ good_examples = <<>>
    /\ bad_examples = <<>>
    /\ accuracy = Zero
    /\ profit = Zero
    /\ iteration = 0
    /\ new_prompt = ""
    /\ changes = <<>>
    /\ iterations = <<>>
    /\ best_prompt = ""
    /\ best_accuracy = Zero
    /\ best_profit = Zero
    /\ saved = NoReport
    /\ mutator_calls = 0
    /\ fn_call = NoCall

\* The state of test_prompt_on_topics as a call of it starts
StartTest ==
    /\ test_num' = 0
    /\ results' = <<>>
    /\ service_calls' = <<>>
    /\ all_good' = <<>>
    /\ all_bad' = <<>>

\* Variant: the run goes on to the baseline test whatever was fetched.
LoadDataNoAbort(fetched, raised) ==
    /\ pc = "load"
    /\ IF raised
       THEN /\ pc' = "crashed"
            /\ UNCHANGED <<market_sets, new_prompt>>
       ELSE /\ market_sets' = SelectSeq(fetched, LAMBDA markets : Len(markets) >= 5)
            /\ pc' = "baseline"
            /\ new_prompt' = Replace(Replace(BASE_PROMPT, "{few_shot_section}", ""),
                                     "{warnings_section}", "")
    /\ UNCHANGED <<config, test_num, completion, results, service_calls, all_good, all_bad, good_examples,
                   bad_examples, accuracy, profit, iteration, changes,
                   iterations, best_prompt, best_accuracy, best_profit, saved,
                   mutator_calls, fn_call>>

\* Lines 574-590: fetch_related_market_sets keeps the topics with at least
\* 5 markets; without any, optimize returns.  The request of a topic is made
\* outside any try (lines 221-222): when one raises, after the topics of
\* fetched, the exception leaves optimize at line 574.
LoadData(fetched, raised) ==
    /\ pc = "load"
    /\ IF raised
       THEN /\ pc' = "crashed"
            /\ UNCHANGED <<market_sets, new_prompt>>
       ELSE /\ market_sets' = SelectSeq(fetched, LAMBDA markets : Len(markets) >= 5)
            /\ IF market_sets' = <<>>
               THEN /\ pc' = "aborted"
                    /\ UNCHANGED new_prompt
               ELSE /\ pc' = "baseline"
                    /\ new_prompt' = Replace(Replace(BASE_PROMPT, "{few_shot_section}", ""),
                                             "{warnings_section}", "")
    /\ UNCHANGED <<config, test_num, completion, results, service_calls, all_good, all_bad, good_examples,
                   bad_examples, accuracy, profit, iteration, changes,
                   iterations, best_prompt, best_accuracy, best_profit, saved,
                   mutator_calls, fn_call>>

AllTestCases == TestCases(market_sets, 1, config.tests_per_topic)

\* Line 408: run_prompt(prompt, source, candidates, ...) of the k-th test
\* case makes one chat completion request (lines 308-316).
RunPromptCall(k) ==
    LET markets == market_sets[AllTestCases[k][1]]
        source  == markets[AllTestCases[k][2]]
    IN  [prompt |-> new_prompt, source |-> source,
         candidates |-> Candidates(markets, source, config.candidates_per_test)]

\* Lines 389-446: one test case, for the service's answer resp.  An exception
\* outside run_prompt's try leaves test_prompt_on_topics and optimize.
TestCase(resp) ==
    /\ pc \in {"baseline", "retest"}
    /\ test_num < Len(AllTestCases)
    /\ completion' = resp
    /\ service_calls' = Append(service_calls, RunPromptCall(test_num + 1))
    /\ LET tc         == AllTestCases[test_num + 1]
           markets    == market_sets[tc[1]]
           source     == markets[tc[2]]
           candidates == Candidates(markets, source, config.candidates_per_test)
           debug      == test_num = 0
           raw        == run_prompt(resp, debug)
           predictions == IF raw.type = "list"
                          THEN ScorePredictions(raw.items, Len(raw.items),
                                                source, candidates)
                          ELSE <<>>
       IN  IF raw.type # "list" \/ Raises(raw.items, candidates, debug)
           THEN /\ pc' = "crashed"
                /\ UNCHANGED <<test_num, results, all_good, all_bad>>
           ELSE /\ pc' = pc
                /\ test_num' = test_num + 1
                /\ results' = Append(results, [source |-> source,
                                               predictions |-> predictions])
                /\ all_good' = all_good \o GoodExamples(predictions)
                /\ all_bad' = all_bad \o BadExamples(predictions)
    /\ UNCHANGED <<config, market_sets, good_examples, bad_examples, accuracy,
                   profit, iteration, new_prompt, changes, iterations,
                   best_prompt, best_accuracy, best_profit, saved,
                   mutator_calls, fn_call>>

\* Variant: one target met is enough.
MeetsEitherTarget(acc, prof) ==
    FGe(acc, config.target_accuracy) \/ FGe(prof, config.target_profit)

\* accuracy >= CONFIG["target_accuracy"] and profit >= CONFIG["target_profit"]
MeetsTargets(acc, prof) ==
    FGe(acc, config.target_accuracy) /\ FGe(prof, config.target_profit)

\* Variant: the records are numbered from 1.
IterationResultFromOne(i, preds, good, bad, changes_made) ==
    [iteration           |-> i + 1,
     prompt_name         |-> IF i = 0 THEN "baseline"
                             ELSE "iteration_" \o Str(i),
     prompt_length       |-> Len(new_prompt),
     accuracy            |-> AggregateAccuracy(preds),
     profit_score        |-> AggregateProfit(preds),
     total_predictions   |-> Len(preds),
     correct_predictions |-> Len(Held(preds)),
     good_examples       |-> good,
     bad_examples        |-> bad,
     changes_made        |-> changes_made]

\* Lines 618-629 and 708-719: IterationResult(...) for the prompt that
\* was tested, new_prompt
IterationResult(i, preds, good, bad, changes_made) ==
    [iteration           |-> i,
     prompt_name         |-> IF i = 0 THEN "baseline"
                             ELSE "iteration_" \o Str(i),
     prompt_length       |-> Len(new_prompt),
     accuracy            |-> AggregateAccuracy(preds),
     profit_score        |-> AggregateProfit(preds),
     total_predictions   |-> Len(preds),
     correct_predictions |-> Len(Held(preds)),
     good_examples       |-> good,
     bad_examples        |-> bad,
     changes_made        |-> changes_made]

\* Variant: one round more than the budget.
LastRoundOffByOne(i) == i > config.max_iterations

\* for iteration in range(1, CONFIG["max_iterations"] + 1): round i is the last
LastRound(i) == i >= config.max_iterations

\* Lines 592-640: the baseline test has returned.
BaselineDone ==
    /\ pc = "baseline"
    /\ test_num = Len(AllTestCases)
    /\ LET preds == Flatten(results) IN
       /\ good_examples' = all_good
       /\ bad_examples' = all_bad
       /\ accuracy' = AggregateAccuracy(preds)
       /\ profit' = AggregateProfit(preds)
       /\ iterations' = <<IterationResult(0, preds, <<>>, <<>>,
                                          <<"Initial baseline test">>)>>
       /\ best_prompt' = new_prompt
       /\ best_accuracy' = accuracy'
       /\ best_profit' = profit'
       /\ IF MeetsTargets(accuracy', profit') \/ LastRound(0)
          THEN pc' = "save" /\ iteration' = iteration
          ELSE pc' = "refine" /\ iteration' = 1
    /\ UNCHANGED <<config, market_sets, test_num, completion, results, service_calls, all_good,
                   all_bad, new_prompt, changes, saved, mutator_calls, fn_call>>

\* Variant: the blocks are put into the best prompt so far.
CandidateFromBest(few_shot, warnings) ==
    Replace(Replace(best_prompt, "{few_shot_section}", few_shot),
            "{warnings_section}", warnings)

\* Lines 666-668: new_prompt = BASE_PROMPT with the two blocks put in
Candidate(few_shot, warnings) ==
    Replace(Replace(BASE_PROMPT, "{few_shot_section}", few_shot),
            "{warnings_section}", warnings)

\* Variant: the mutation is called for only when both conditions hold.
NeedsMutationWhenBoth(i, acc) == i >= 2 /\ FLt(acc, Lit(40, 1))

\* Line 671: if iteration >= 2 or accuracy < 40
NeedsMutation(i, acc) == i >= 2 \/ FLt(acc, Lit(40, 1))

\* Lines 645-674: the round's prompt is built; the mutation is called for
\* from the second round on, or when the last accuracy is below 40.
Refine ==
    /\ pc = "refine"
    /\ LET few_shot == build_few_shot_section(good_examples, config.few_shot_examples)
           warnings == build_warnings_section(bad_examples)
       IN  /\ changes' =
                  (IF few_shot # ""
                   THEN <<"Added "
                          \o Str(Min(Len(good_examples), config.few_shot_examples))
                          \o " few-shot examples">>
                   ELSE <<>>)
                  \o (IF warnings # ""
                      THEN <<"Added warnings for "
                             \o Str(Cardinality({bad_examples[i].relationship :
                                                    i \in 1..Len(bad_examples)}))
                             \o " relationship types">>
                      ELSE <<>>)
           /\ new_prompt' = Candidate(few_shot, warnings)
    /\ IF NeedsMutation(iteration, accuracy)
       THEN /\ pc' = "mutate"
            /\ UNCHANGED <<test_num, results, service_calls, all_good, all_bad>>
       ELSE /\ pc' = "retest"
            /\ StartTest
    /\ UNCHANGED <<config, market_sets, completion, good_examples, bad_examples,
                   accuracy, profit, iteration, iterations, best_prompt,
                   best_accuracy, best_profit, saved, mutator_calls, fn_call>>

\* A call of mutate_prompt_with_llm: its arguments, the service's answer
\* and, once it has returned, its result.
MutatorCall(current_prompt, acc, prof, bad, mresp, returned, result) ==
    [fn |-> "mutate_prompt_with_llm", current_prompt |-> current_prompt,
     accuracy |-> acc, profit |-> prof, bad_examples |-> bad, mresp |-> mresp,
     returned |-> returned, result |-> result]

\* Variant: a failed call of the mutation service is made again.
MutateRetrying(mresp) ==
    /\ pc = "mutate"
    /\ new_prompt' = mutate_prompt_with_llm(new_prompt, mresp)
    /\ fn_call' = MutatorCall(new_prompt, accuracy, profit, bad_examples, mresp,
                              TRUE, new_prompt')
    /\ mutator_calls' = mutator_calls + 1
    /\ IF mresp.kind = "error" /\ mutator_calls < MaxIterations + 1
       THEN /\ pc' = "mutate"
            /\ UNCHANGED <<changes, test_num, results, service_calls, all_good,
                           all_bad>>
       ELSE /\ pc' = "retest"
            /\ changes' = Append(changes, "Applied LLM-based prompt mutation")
            /\ StartTest
    /\ UNCHANGED <<config, market_sets, completion, good_examples, bad_examples,
                   accuracy, profit, iteration, iterations, best_prompt,
                   best_accuracy, best_profit, saved>>

\* Lines 672-674, for the service's answer mresp.
Mutate(mresp) ==
    /\ pc = "mutate"
    /\ new_prompt' = mutate_prompt_with_llm(new_prompt, mresp)
    /\ fn_call' = MutatorCall(new_prompt, accuracy, profit, bad_examples, mresp,
                              TRUE, new_prompt')
    /\ changes' = Append(changes, "Applied LLM-based prompt mutation")
    /\ mutator_calls' = mutator_calls + 1
    /\ pc' = "retest"
    /\ StartTest
    /\ UNCHANGED <<config, market_sets, completion, good_examples, bad_examples,
                   accuracy, profit, iteration, iterations, best_prompt,
                   best_accuracy, best_profit, saved>>

\* Variant: only a strictly greater accuracy replaces the best one.
KeepBestByAccuracy(acc, prof, best_acc, best_prof) == FGt(acc, best_acc)

\* Variant: a candidate equal on both metrics replaces the best one.
KeepBestOnTie(acc, prof, best_acc, best_prof) ==
    FGt(acc, best_acc) \/ (FEq(acc, best_acc) /\ FGe(prof, best_prof))

\* Line 722: does the round's candidate replace the best one?
KeepBest(acc, prof, best_acc, best_prof) ==
    FGt(acc, best_acc) \/ (FEq(acc, best_acc) /\ FGt(prof, best_prof))

\* Lines 678-731: the round's test has returned.
IterationDone ==
    /\ pc = "retest"
    /\ test_num = Len(AllTestCases)
    /\ LET preds == Flatten(results) IN
       /\ good_examples' = all_good
       /\ bad_examples' = all_bad
       /\ accuracy' = AggregateAccuracy(preds)
       /\ profit' = AggregateProfit(preds)
       /\ iterations' = Append(iterations,
              IterationResult(iteration, preds, SubSeq(all_good, 1, Min(3, Len(all_good))),
                              SubSeq(all_bad, 1, Min(3, Len(all_bad))), changes))
       /\ IF KeepBest(accuracy', profit', best_accuracy, best_profit)
          THEN /\ best_prompt' = new_prompt
               /\ best_accuracy' = accuracy'
               /\ best_profit' = profit'
          ELSE UNCHANGED <<best_prompt, best_accuracy, best_profit>>
       /\ IF MeetsTargets(accuracy', profit') \/ LastRound(iteration)
          THEN pc' = "save" /\ iteration' = iteration
          ELSE pc' = "refine" /\ iteration' = iteration + 1
    /\ UNCHANGED <<config, market_sets, test_num, completion, results, service_calls, all_good,
                   all_bad, new_prompt, changes, saved, mutator_calls, fn_call>>

\* Lines 743-744: the metrics in the name of the versioned copy,
\* f"{best_accuracy:.0f}acc" and f"{best_profit:.2f}profit" with "." turned
\* into "p" and "-" into "neg".
VersionedName(acc, prof) ==
    [acc_str    |-> Fixed(acc, 0, FALSE),
     profit_str |-> [Fixed(prof, 2, FALSE) EXCEPT
                         !.sign = IF @ = "-" THEN "neg" ELSE @]]

\* f"{n:+d}"
Signed(n) == IF n < 0 THEN "-" \o Str(-n) ELSE "+" \o Str(n)

\* Lines 756-768: the report's summary; the metrics are texts of one
\* (accuracy) and two (mean score) decimals, the change of length a text.
Summary(records, best_acc, best_prof) ==
    [baseline_accuracy    |-> Fixed(records[1].accuracy, 1, FALSE),
     final_accuracy       |-> Fixed(best_acc, 1, FALSE),
     accuracy_improvement |-> Fixed(FAdd(best_acc, FNeg(records[1].accuracy)),
                                    1, TRUE),
     baseline_profit      |-> Fixed(records[1].profit_score, 2, FALSE),
     final_profit         |-> Fixed(best_prof, 2, FALSE),
     profit_improvement   |-> Fixed(FAdd(best_prof, FNeg(records[1].profit_score)),
                                    2, TRUE),
     total_iterations     |-> Len(records) - 1,
     prompt_length_change |-> Signed(Len(best_prompt) - Len(BASE_PROMPT))
                              \o " chars"]

\* Lines 738-813: BEST_PROMPT.txt, its versioned copy and the report
\* (optimization_data.json) are written.
Save ==
    /\ pc = "save"
    /\ saved' = [written |-> TRUE, best_prompt |-> best_prompt,
                 versioned |-> VersionedName(best_accuracy, best_profit),
                 summary |-> Summary(iterations, best_accuracy, best_profit),
                 iterations |-> iterations]
    /\ pc' = "done"
    /\ UNCHANGED <<config, market_sets, test_num, completion, results, service_calls, all_good,
                   all_bad, good_examples, bad_examples, accuracy, profit, iteration,
                   new_prompt, changes, iterations, best_prompt, best_accuracy,
                   best_profit, mutator_calls, fn_call>>

Next ==
    \/ \E fetched \in Fetched, raised \in BOOLEAN : LoadData(fetched, raised)
    \/ \E resp \in Answers(ControllerResponses, ConfigResponses) : TestCase(resp)
    \/ BaselineDone
    \/ Refine
    \/ \E mresp \in MutationResponses : Mutate(mresp)
    \/ IterationDone
    \/ Save

Spec == Init /\ [][Next]_vars

(***************************************************************************)
(* One test run: test_prompt_on_topics on the baseline prompt, explored    *)
(* with every answer of TesterResponses for each test case.                *)
(***************************************************************************)
NextTester ==
    \/ \E fetched \in Fetched, raised \in BOOLEAN : LoadData(fetched, raised)
    \/ \E resp \in Answers(TesterResponses, TesterConfigResponses) : TestCase(resp)
    \/ BaselineDone

TesterSpec == Init /\ [][NextTester]_vars

(***************************************************************************)
(* evaluate_relationship on its own: a call with any outcomes and any      *)
(* relationship string, then its return.                                   *)
(***************************************************************************)
EvalRelationships == KnownRelationships \cup {"OTHER", "implies", "", "NULL", "LIST"}

Call(source_outcome, related_outcome, relationship) ==
    [fn |-> "evaluate_relationship", source_outcome |-> source_outcome,
     related_outcome |-> related_outcome, relationship |-> relationship,
     returned |-> FALSE, held |-> FALSE, profit |-> Zero]

InitEval ==
    /\ pc = "call"
    /\ fn_call \in {Call(s, r, rel) : s \in Outcomes, r \in Outcomes,
                                      rel \in EvalRelationships}
    /\ config = CONFIG
    /\ market_sets = <<>>
    /\ test_num = 0
    /\ completion = NoCompletion
    /\ results = <<>>
    /\ service_calls = <<>>
    /\ all_good = <<>>
    /\ all_bad = <<>>
    /\ good_examples = <<>>
    /\ bad_examples = <<>>
    /\ accuracy = Zero
    /\ profit = Zero
    /\ iteration = 0
    /\ new_prompt = ""
    /\ changes = <<>>
    /\ iterations = <<>>
    /\ best_prompt = ""
    /\ best_accuracy = Zero
    /\ best_profit = Zero
    /\ saved = NoReport
    /\ mutator_calls = 0

Evaluate ==
    /\ pc = "call"
    /\ fn_call.fn = "evaluate_relationship"
    /\ IF Hashable(fn_call.relationship)
       THEN /\ LET result == evaluate_relationship(fn_call.source_outcome,
                                                   fn_call.related_outcome,
                                                   fn_call.relationship)
               IN  fn_call' = [fn_call EXCEPT !.returned = TRUE,
                                              !.held = result.held,
                                              !.profit = result.profit]
            /\ pc' = "returned"
       ELSE /\ fn_call' = fn_call
            /\ pc' = "raised"
    /\ UNCHANGED <<config, market_sets, test_num, completion, results, service_calls, all_good,
                   all_bad, good_examples, bad_examples, accuracy, profit,
                   iteration, new_prompt, changes, iterations, best_prompt,
                   best_accuracy, best_profit, saved, mutator_calls>>

NextEval == Evaluate

EvalSpec == InitEval /\ [][NextEval]_vars

(***************************************************************************)
(* mutate_prompt_with_llm on its own: a call with any candidate text over  *)
(* the two anchors and other text, and any answer of the service; beside   *)
(* it the runs of optimize(), which call it on the round's candidate.      *)
(***************************************************************************)
MaxParts == 3

\* "".join(pieces)
RECURSIVE Concat(_)
Concat(pieces) ==
    IF pieces = <<>> THEN "" ELSE Head(pieces) \o Concat(Tail(pieces))

\* Texts of up to MaxParts pieces
MutatorPrompts ==
    {Concat(pieces) :
        pieces \in SeqsUpTo({"TEXT\n", "Relationship Types:", "Return JSON"}, MaxParts)}

\* Predictions as test_prompt_on_topics scores them for the source m1 of
\* GroupA; the relationship and the reasoning are the service's words.
Scored(k, relationship, reasoning) ==
    Prediction(GroupA[1], GroupA[k], relationship, reasoning,
               evaluate_relationship(GroupA[1].outcome, GroupA[k].outcome,
                                     relationship))

\* The same for a related market with the given question
ScoredAsking(k, question, relationship, reasoning) ==
    Prediction(GroupA[1], Asking(GroupA[k], question), relationship, reasoning,
               evaluate_relationship(GroupA[1].outcome, GroupA[k].outcome,
                                     relationship))

\* Pools whose texts hold the output anchor: good predictions (held, with a
\* profit over 0.2, line 436) and bad predictions (not held, line 438)
AnchorGood ==
    {<<>>,
     <<Scored(2, "CONTRADICTS", "both Return JSON fields"),
       Scored(4, "CONTRADICTS", "because")>>,
     <<Scored(2, "CONTRADICTS", "Return JSON")>>,
     <<ScoredAsking(2, "Will the API Return JSON?", "CONTRADICTS", "because")>>}

AnchorBad ==
    {<<>>,
     <<Scored(3, "Return JSON now", "because")>>,
     <<Scored(2, "IMPLIES", "because")>>}

\* The candidates optimize() builds from them (lines 666-668)
MutatorCandidates ==
    {Replace(Replace(BASE_PROMPT, "{few_shot_section}",
                     build_few_shot_section(good, CONFIG.few_shot_examples)),
             "{warnings_section}", build_warnings_section(bad)) :
         good \in AnchorGood, bad \in AnchorBad}

\* All variables but pc and fn_call as optimize() finds them
Idle ==
    /\ config = CONFIG
    /\ market_sets = <<>>
    /\ test_num = 0
    /\ completion = NoCompletion
    /\ results = <<>>
    /\ service_calls = <<>>
    /\ all_good = <<>>
    /\ all_bad = <<>>
    /\ good_examples = <<>>
    /\ bad_examples = <<>>
    /\ accuracy = Zero
    /\ profit = Zero
    /\ iteration = 0
    /\ new_prompt = ""
    /\ changes = <<>>
    /\ iterations = <<>>
    /\ best_prompt = ""
    /\ best_accuracy = Zero
    /\ best_profit = Zero
    /\ saved = NoReport
    /\ mutator_calls = 0

InitMutator ==
    /\ pc = "call"
    /\ fn_call \in {MutatorCall(prompt, Zero, Zero, <<>>, mresp, FALSE, "") :
                        prompt \in MutatorPrompts \cup MutatorCandidates,
                        mresp \in MutationResponses}
    /\ Idle

MutatePrompt ==
    /\ pc = "call"
    /\ fn_call.fn = "mutate_prompt_with_llm"
    /\ fn_call' = [fn_call EXCEPT
                      !.returned = TRUE,
                      !.result = mutate_prompt_with_llm(fn_call.current_prompt,
                                                        fn_call.mresp)]
    /\ pc' = "returned"
    /\ UNCHANGED <<config, market_sets, test_num, completion, results, service_calls, all_good,
                   all_bad, good_examples, bad_examples, accuracy, profit,
                   iteration, new_prompt, changes, iterations, best_prompt,
                   best_accuracy, best_profit, saved, mutator_calls>>

NextMutator == MutatePrompt \/ Next

MutatorSpec == (InitMutator \/ Init) /\ [][NextMutator]_vars

(***************************************************************************)
(* build_few_shot_section and build_warnings_section called on their own   *)
(***************************************************************************)
MaxPool == 4

\* A question of 83 characters with a placeholder at characters 34 to 51
LongQuestion ==
    "Will the measure described under {warnings_section} pass both chambers before July?"

\* Predictions whose reasoning, relationship or question holds a
\* placeholder, beside plain ones
BuilderPredictions ==
    {Scored(2, "CONTRADICTS", "because"),
     Scored(4, "CONTRADICTS", "see {warnings_section} below"),
     Scored(3, "CONTRADICTS", "because"),
     Scored(2, "IMPLIES", "because"),
     Scored(2, "{source_question}", "because"),
     ScoredAsking(3, LongQuestion, "IMPLIES", "because")}

BuilderCall(fn, examples, max_examples, returned, result) ==
    [fn |-> fn, examples |-> examples, max_examples |-> max_examples,
     returned |-> returned, result |-> result]

InitBuilder ==
    /\ pc = "call"
    /\ \E examples \in SeqsUpTo(BuilderPredictions, MaxPool) :
          \/ \E max_examples \in 1..3 :
                fn_call = BuilderCall("build_few_shot_section", examples,
                                      max_examples, FALSE, "")
          \/ fn_call = BuilderCall("build_warnings_section", examples, 0,
                                   FALSE, "")
    /\ Idle

BuildFewShot ==
    /\ pc = "call"
    /\ fn_call.fn = "build_few_shot_section"
    /\ fn_call' = [fn_call EXCEPT
                      !.returned = TRUE,
                      !.result = build_few_shot_section(fn_call.examples,
                                                        fn_call.max_examples)]
    /\ pc' = "returned"
    /\ UNCHANGED <<config, market_sets, test_num, completion, results, service_calls, all_good,
                   all_bad, good_examples, bad_examples, accuracy, profit,
                   iteration, new_prompt, changes, iterations, best_prompt,
                   best_accuracy, best_profit, saved, mutator_calls>>

BuildWarnings ==
    /\ pc = "call"
    /\ fn_call.fn = "build_warnings_section"
    /\ fn_call' = [fn_call EXCEPT
                      !.returned = TRUE,
                      !.result = build_warnings_section(fn_call.examples)]
    /\ pc' = "returned"
    /\ UNCHANGED <<config, market_sets, test_num, completion, results, service_calls, all_good,
                   all_bad, good_examples, bad_examples, accuracy, profit,
                   iteration, new_prompt, changes, iterations, best_prompt,
                   best_accuracy, best_profit, saved, mutator_calls>>

NextBuilder == BuildFewShot \/ BuildWarnings

BuilderSpec == InitBuilder /\ [][NextBuilder]_vars

(***************************************************************************)
(* test_prompt_on_topics called on its own, on groups of any size          *)
(***************************************************************************)
MaxTests == 4

Pair == <<Market("a1", "YES"), Market("a2", "NO")>>
Trio == <<Market("b1", "YES"), Market("b2", "NO"), Market("b3", "YES")>>

\* market_sets as the argument of the call
TopicSets == {<<>>, <<Pair>>, <<Trio>>, <<Pair, GroupA>>, <<Trio, GroupA>>,
              <<GroupA, Pair, Trio>>}

\* The answers of the service: a failed call, and triples that name items
\* of both groups
TopicResponses ==
    {Failure("transport_error"),
     Answer("list", <<Entry("m3", "IMPLIES"), Entry("b2", "CONTRADICTS"),
                      Entry("m2", "CONTRADICTS"), Entry("b3", "CONTRADICTS"),
                      Entry("m1", "WEAK_SIGNAL"), Entry("m2", "IMPLIES"),
                      Entry("b1", "IMPLIES")>>)}

InitTopics ==
    /\ pc = "baseline"
    /\ \E tests_per_topic \in 1..MaxTests, candidates_per_test \in {2, 10} :
          config = [Cfg(MaxIterations, tests_per_topic, 75, 3)
                       EXCEPT !.candidates_per_test = candidates_per_test]
    /\ market_sets \in TopicSets
    /\ test_num = 0
    /\ completion = NoCompletion
    /\ results = <<>>
    /\ service_calls = <<>>
    /\ all_good = <<>>
    /\ all_bad = <<>>
    /\ good_examples = <<>>
    /\ bad_examples = <<>>
    /\ accuracy = Zero
    /\ profit = Zero
    /\ iteration = 0
    /\ new_prompt = Candidate("", "")
    /\ changes = <<>>
    /\ iterations = <<>>
    /\ best_prompt = ""
    /\ best_accuracy = Zero
    /\ best_profit = Zero
    /\ saved = NoReport
    /\ mutator_calls = 0
    /\ fn_call = NoCall

\* Line 448: return results, all_good, all_bad
ReturnTest ==
    /\ pc = "baseline"
    /\ test_num = Len(AllTestCases)
    /\ pc' = "returned"
    /\ fn_call' = [fn |-> "test_prompt_on_topics", returned |-> TRUE,
                   result |-> <<results, all_good, all_bad>>]
    /\ UNCHANGED <<config, market_sets, test_num, completion, results,
                   service_calls, all_good, all_bad, good_examples,
                   bad_examples, accuracy, profit, iteration, new_prompt,
                   changes, iterations, best_prompt, best_accuracy,
                   best_profit, saved, mutator_calls>>

NextTopics ==
    \/ \E resp \in TopicResponses : TestCase(resp)
    \/ ReturnTest

TopicsSpec == InitTopics /\ [][NextTopics]_vars

(***************************************************************************)
(* PROPERTIES                                                              *)
(***************************************************************************)
\* The float f is the fraction num/den up to the rounding of binary64
\* arithmetic (less than 2^-40 away).
Near(f, num, den) ==
    LET gap == FAdd(f, FNeg(Lit(num, den)))
    IN  FLt([gap EXCEPT !.s = Abs(@)], Round(1, <<1>>, -40))

\* The score f in tenths: every score of the policy is a literal of tenths.
Tenths(f) == CHOOSE t \in -10..10 : FEq(f, Lit(t, 10))

\* The text of a report shows the float f: its digits are f rounded to the
\* text's number of decimals (within half a unit), under f's sign.
Shows(text, f) ==
    LET digits == Lit((IF text.sign = "-" THEN -1 ELSE 1) * text.units,
                      10 ^ text.decimals)
        gap    == FAdd(f, FNeg(digits))
    IN  /\ text.sign = "-" <=> f.s < 0
        /\ FLt([gap EXCEPT !.s = Abs(@)],
               FAdd(Lit(1, 2 * 10 ^ text.decimals), Round(1, <<1>>, -40)))

Last(seq) == seq[Len(seq)]

\* The record's own accuracy and mean score meet both targets.
RecordMeetsTargets(rec) ==
    /\ FGe(rec.accuracy, config.target_accuracy)
    /\ FGe(rec.profit_score, config.target_profit)

\* The policy table: held, and the score in tenths.
TableHeld(source_outcome, related_outcome, relationship) ==
    CASE relationship = "IMPLIES" ->
             source_outcome # "YES" \/ related_outcome = "YES"
      [] relationship = "CONTRADICTS" ->
             (source_outcome = "YES") # (related_outcome = "YES")
      [] relationship = "SUBEVENT" -> TRUE
      [] relationship = "CONDITIONED_ON" ->
             source_outcome # "YES" \/ related_outcome = "YES"
      [] relationship = "WEAK_SIGNAL" ->
             (source_outcome = "YES") = (related_outcome = "YES")

TableTenths(relationship, held) ==
    CASE relationship = "IMPLIES"        -> IF held THEN 6 ELSE -8
      [] relationship = "CONTRADICTS"    -> IF held THEN 7 ELSE -7
      [] relationship = "SUBEVENT"       -> 3
      [] relationship = "CONDITIONED_ON" -> IF held THEN 5 ELSE -6
      [] relationship = "WEAK_SIGNAL"    -> IF held THEN 2 ELSE -3

\* C1: for every pair of outcomes in {YES, NO, PENDING} and each of the five
\* categories, evaluate_relationship returns exactly the policy table: held
\* as the table's condition says, and the table's score for that verdict.
C1_PolicyTable ==
    (pc = "returned" /\ fn_call.relationship \in KnownRelationships) =>
        /\ fn_call.held = TableHeld(fn_call.source_outcome,
                                    fn_call.related_outcome, fn_call.relationship)
        /\ FEq(fn_call.profit,
               Lit(TableTenths(fn_call.relationship, fn_call.held), 10))

\* C1's case: IMPLIES with a source that is not YES and a related market that
\* is not YES has returned (the vacuous truth).
C1_Witness ==
    /\ pc = "returned"
    /\ fn_call.relationship = "IMPLIES"
    /\ fn_call.source_outcome = "PENDING"
    /\ fn_call.related_outcome = "NO"
    /\ fn_call.held
    /\ FEq(fn_call.profit, Lit(6, 10))

\* C2: for a relationship string that is none of the five categories and any
\* outcomes, evaluate_relationship returns (held = false, score = -0.5); the
\* call always returns (it never raises: only a relationship that is no
\* string at all, a list or an object, makes it raise).
C2_UnknownCategoryPenalty ==
    /\ pc = "call" => ENABLED Evaluate
    /\ pc = "raised" => ~Hashable(fn_call.relationship)
    /\ (pc = "returned" /\ fn_call.relationship \notin KnownRelationships) =>
           /\ ~fn_call.held
           /\ FEq(fn_call.profit, Lit(-5, 10))

\* C2's case: a call with an unknown category and outcomes for which the
\* weakest category would hold has returned the penalty.
C2_Witness ==
    /\ pc = "returned"
    /\ fn_call.relationship = "implies"
    /\ fn_call.source_outcome = "YES"
    /\ fn_call.related_outcome = "YES"
    /\ ~fn_call.held
    /\ FEq(fn_call.profit, Lit(-5, 10))

\* C3: after the test of a refinement round the candidate replaces
\* best-so-far (prompt, accuracy and mean score together) if and only if its
\* accuracy is strictly greater than the best accuracy, or equal to it with a
\* strictly greater mean score; otherwise best-so-far is left unchanged.
C3_BestRetention ==
    [][(pc = "retest" /\ pc' \in {"refine", "save"}) =>
          LET rec == Last(iterations')
              better ==
                  \/ FGt(rec.accuracy, best_accuracy)
                  \/ /\ FEq(rec.accuracy, best_accuracy)
                     /\ FGt(rec.profit_score, best_profit)
          IN  IF better
              THEN /\ best_prompt' = new_prompt
                   /\ best_accuracy' = rec.accuracy
                   /\ best_profit' = rec.profit_score
              ELSE UNCHANGED <<best_prompt, best_accuracy, best_profit>>]_vars

\* C3's case: round 1 tied the baseline's accuracy with a strictly greater
\* mean score, and its candidate has replaced the baseline as best-so-far.
C3_Witness ==
    /\ pc \in {"refine", "save"}
    /\ Len(iterations) = 2
    /\ FEq(iterations[2].accuracy, iterations[1].accuracy)
    /\ FGt(iterations[2].profit_score, iterations[1].profit_score)
    /\ best_prompt = new_prompt
    /\ best_accuracy = iterations[2].accuracy
    /\ best_profit = iterations[2].profit_score

\* C4: when the baseline test meets both targets the controller goes
\* straight to Done: no refinement round runs, the mutator is never invoked,
\* the history holds exactly one record (index 0) and best-so-far is the
\* baseline candidate; when the baseline misses a target, round 1 runs.
C4_BaselineMeetsTargets ==
    /\ [][(pc = "baseline" /\ pc' \in {"refine", "save"}) =>
              /\ Len(iterations') = 1
              /\ iterations'[1].iteration = 0
              /\ best_prompt' = new_prompt
              /\ best_accuracy' = iterations'[1].accuracy
              /\ best_profit' = iterations'[1].profit_score
              /\ IF RecordMeetsTargets(iterations'[1])
                 THEN pc' = "save" /\ mutator_calls' = 0
                 ELSE pc' = "refine" /\ iteration' = 1]_vars
    /\ []((pc \in {"save", "done"} /\ RecordMeetsTargets(iterations[1])) =>
              /\ Len(iterations) = 1
              /\ iteration = 0
              /\ mutator_calls = 0
              /\ best_prompt = new_prompt
              /\ best_accuracy = iterations[1].accuracy
              /\ best_profit = iterations[1].profit_score)
    /\ []((pc = "done" /\ RecordMeetsTargets(iterations[1])) =>
              /\ saved.best_prompt = new_prompt
              /\ saved.summary.total_iterations = 0
              /\ Len(saved.iterations) = 1)

\* C4's case: the baseline met both targets (50, 0) without being perfect,
\* and the run is at Done with one record.
C4_Witness ==
    /\ pc = "done"
    /\ RecordMeetsTargets(iterations[1])
    /\ FLt(iterations[1].accuracy, Lit(100, 1))
    /\ Len(iterations) = 1
    /\ mutator_calls = 0

\* C5: round i+1 is executed if and only if i < maxIterations and the test of
\* round i (the baseline is round 0) did not meet both targets with its own
\* accuracy and mean score; no round follows a round whose test met both
\* targets; at Done the report holds best-so-far and one record per test
\* performed, in order.
C5_StoppingRule ==
    /\ [][(pc \in {"baseline", "retest"} /\ pc' \in {"refine", "save"}) =>
              /\ Last(iterations').iteration = iteration
              /\ Len(iterations') = iteration + 1
              /\ pc' = "refine" <=>
                     /\ iteration < config.max_iterations
                     /\ ~RecordMeetsTargets(Last(iterations'))
              /\ iteration' = IF pc' = "refine" THEN iteration + 1 ELSE iteration]_vars
    /\ [](pc \in {"refine", "mutate", "retest"} =>
              /\ iteration \in 1..config.max_iterations
              /\ Len(iterations) = iteration
              /\ ~RecordMeetsTargets(Last(iterations)))
    /\ [](pc = "done" =>
              /\ saved.written
              /\ saved.best_prompt = best_prompt
              /\ Shows(saved.summary.final_accuracy, best_accuracy)
              /\ Shows(saved.summary.final_profit, best_profit)
              /\ saved.summary.total_iterations = iteration
              /\ saved.iterations = iterations
              /\ Len(iterations) = iteration + 1
              /\ \A k \in 1..Len(iterations) : iterations[k].iteration = k - 1)

\* C5's case: the budget of the largest configuration ran out with the last
\* round missing a target while best-so-far is an earlier round's candidate.
C5_Witness ==
    /\ pc = "done"
    /\ config.max_iterations = MaxIterations
    /\ Len(iterations) = MaxIterations + 1
    /\ ~RecordMeetsTargets(Last(iterations))
    /\ FGt(best_accuracy, Last(iterations).accuracy)

\* The positions at which optimize() has a next step to take.
Running == {"baseline", "refine", "mutate", "retest", "save"}

\* C6: every run that starts with at least one usable data group reaches
\* Done, whatever the service answers or however it fails (a run that can
\* take no further step is at Done), and the history never holds more than
\* maxIterations + 1 records.
C6_RunReachesDone ==
    /\ (market_sets # <<>> /\ pc \notin Running) => pc = "done"
    /\ Len(iterations) <= config.max_iterations + 1

\* C6's case: a run with a usable group that has stopped outside Done.
C6_Witness ==
    /\ market_sets # <<>>
    /\ pc = "crashed"
    /\ completion.kind = "object"
    /\ completion.related.type = "null"

\* The sum of the scores of preds in tenths.
RECURSIVE SumTenths(_)
SumTenths(preds) ==
    IF preds = <<>> THEN 0
    ELSE Tenths(Head(preds).profit) + SumTenths(Tail(preds))

NoPredictions(res) == \A k \in 1..Len(res) : res[k].predictions = <<>>

\* C7: accuracy and mean score over an empty list of predictions are exactly
\* 0 and 0, for a single test case's result and for the aggregate of a test
\* run in which no test case produced a prediction; that iteration is still
\* recorded, with total = 0 and correct = 0.
C7_EmptyAggregatesAreZero ==
    /\ \A k \in 1..Len(iterations) :
           iterations[k].total_predictions = 0 =>
               /\ FEq(iterations[k].accuracy, Zero)
               /\ FEq(iterations[k].profit_score, Zero)
               /\ iterations[k].correct_predictions = 0
    /\ \A k \in 1..Len(results) :
           results[k].predictions = <<>> =>
               /\ FEq(TestResult_accuracy(results[k]), Zero)
               /\ FEq(TestResult_profit_score(results[k]), Zero)
    /\ (pc \in {"refine", "mutate", "save", "done"} /\ NoPredictions(results)) =>
           /\ iterations # <<>>
           /\ Last(iterations).total_predictions = 0
           /\ Last(iterations).correct_predictions = 0
           /\ FEq(accuracy, Zero)
           /\ FEq(profit, Zero)

\* C7's case: a round whose test cases all came back without a prediction
\* has been recorded.
C7_Witness ==
    /\ pc = "done"
    /\ Len(iterations) >= 2
    /\ Len(results) >= 1
    /\ NoPredictions(results)
    /\ Last(iterations).total_predictions = 0
    /\ Last(iterations).iteration >= 1

\* The test run of the scenario: one source with 4 candidates, two matched
\* identifiers labelled CONTRADICTS (outcomes opposite) and WEAK_SIGNAL
\* (outcomes equal).
Scenario ==
    /\ pc \in {"refine", "mutate", "save", "done"}
    /\ Len(results) = 1
    /\ Len(completion.related.items) = 2
    /\ LET source == results[1].source
           first  == completion.related.items[1]
           second == completion.related.items[2]
       IN  /\ Len(market_sets[1]) = 5
           /\ first.relationship = "CONTRADICTS"
           /\ second.relationship = "WEAK_SIGNAL"
           /\ first.marketId # second.marketId
           /\ \E i, j \in 1..5 :
                  /\ market_sets[1][i].id = first.marketId
                  /\ market_sets[1][j].id = second.marketId
                  /\ market_sets[1][i].id # source.id
                  /\ market_sets[1][j].id # source.id
                  /\ (market_sets[1][i].outcome = "YES") # (source.outcome = "YES")
                  /\ (market_sets[1][j].outcome = "YES") = (source.outcome = "YES")

\* C8: an iteration's accuracy and mean score are computed over the same
\* set, all predictions of all test cases of the test run: accuracy is
\* 100 * held / total and the mean score is the sum of the scores / total (as
\* floats); in the scenario the run yields exactly 2 predictions, both held,
\* with scores +0.7 and +0.2, accuracy 100 and mean score 0.45.
C8_SameSetAggregates ==
    /\ (pc \in {"refine", "mutate", "save", "done"} /\ iterations # <<>>) =>
           LET preds == Flatten(results)
               rec   == Last(iterations)
           IN  /\ rec.total_predictions = Len(preds)
               /\ rec.correct_predictions = Len(Held(preds))
               /\ Len(preds) > 0 =>
                      /\ Near(rec.accuracy, 100 * Len(Held(preds)), Len(preds))
                      /\ Near(rec.profit_score, SumTenths(preds), 10 * Len(preds))
    /\ Scenario =>
           LET preds == results[1].predictions
               rec   == Last(iterations)
           IN  /\ Len(preds) = 2
               /\ preds[1].held /\ preds[2].held
               /\ FEq(preds[1].profit, Lit(7, 10))
               /\ FEq(preds[2].profit, Lit(2, 10))
               /\ rec.total_predictions = 2
               /\ FEq(rec.accuracy, Lit(100, 1))
               /\ Near(rec.profit_score, 45, 100)

\* C8's case: the scenario's test run has been aggregated alongside a run
\* holding a prediction that did not hold.
C8_Witness ==
    /\ Scenario
    /\ Len(iterations) = 2
    /\ iterations[1].correct_predictions < iterations[1].total_predictions
    /\ Near(iterations[2].profit_score, 45, 100)

\* The identifiers of the candidates offered in test case k of the run.
CandidateIds(k) ==
    LET markets == market_sets[AllTestCases[k][1]]
        source  == markets[AllTestCases[k][2]]
        offered == Candidates(markets, source, config.candidates_per_test)
    IN  {offered[i].id : i \in 1..Len(offered)}

\* The service's answer is not a list of objects under "related".
WrongShape(c) ==
    \/ c.kind # "object"
    \/ c.related.type # "list"
    \/ \E k \in 1..Len(c.related.items) : ~c.related.items[k].obj

\* An entry of the answer holds a number, a list or an object where the
\* identifier is expected, or a list or an object where the relationship is.
Mistyped(c) ==
    \E k \in 1..Len(c.related.items) :
        /\ c.related.items[k].obj
        /\ \/ c.related.items[k].marketId \in {"NUMBER", "LIST", "OBJECT"}
           \/ ~Hashable(c.related.items[k].relationship)

\* The answer is that of the first test case of the test run, the only one
\* run_prompt is called for with debug on: one call has been made, whether
\* the test case was completed or left by an exception.
FirstAnswer == Len(service_calls) = 1

\* The first test case prints, inside run_prompt's try, the length of a
\* "related" that is true and its first two entries; a number, which has no
\* length, or an entry it cannot print loses the whole answer.
LostInDebug(c) ==
    /\ FirstAnswer
    /\ c.kind = "object"
    /\ \/ c.related.type = "number"
       \/ /\ c.related.type = "list"
          /\ \E k \in 1..Min(2, Len(c.related.items)) :
                 \/ ~c.related.items[k].obj
                 \/ c.related.items[k].marketId \in {"NULL", "NUMBER", "OBJECT"}

\* C9: a returned triple whose identifier is missing or is not the
\* identifier of a candidate offered for the source is discarded without
\* error and produces no prediction; every recorded prediction's related
\* market is a candidate of its test case (same group as the source, other
\* identifier than the source's).  The triples are those of an answer that
\* is a list of objects.
C9_OnlyCandidatesPredicted ==
    /\ \A k \in 1..Len(results) :
           \A j \in 1..Len(results[k].predictions) :
               LET p       == results[k].predictions[j]
                   markets == market_sets[AllTestCases[k][1]]
               IN  /\ p.source = markets[AllTestCases[k][2]]
                   /\ p.source = results[k].source
                   /\ \E i \in 1..Len(markets) : markets[i] = p.related
                   /\ p.related.id # p.source.id
    /\ (completion.kind = "object" /\ completion.related.type = "list"
           /\ ~WrongShape(completion)) =>
           /\ pc # "crashed"
           /\ Len(results) = test_num
           /\ LET matched == SelectSeq(completion.related.items,
                                 LAMBDA e : e.marketId \in CandidateIds(test_num))
                  preds   == results[test_num].predictions
              IN  IF LostInDebug(completion) THEN preds = <<>>
                  ELSE /\ Len(preds) = Len(matched)
                       /\ \A j \in 1..Len(preds) :
                              preds[j].related.id = matched[j].marketId

\* C9's case: the first test case was answered with a triple naming a
\* candidate, a triple with an unknown identifier and a triple whose
\* identifier is a number, and the test run was left by an exception.
C9_Witness ==
    /\ pc = "crashed"
    /\ test_num = 0
    /\ results = <<>>
    /\ ~WrongShape(completion)
    /\ Mistyped(completion)
    /\ Len(completion.related.items) = 3
    /\ completion.related.items[1].marketId = "m3"
    /\ completion.related.items[2].marketId = "zz"
    /\ completion.related.items[3].marketId = "NUMBER"

\* C10: a failure of the service call for one test case never aborts the
\* test run: after a transport error, a non-parsing response or a payload of
\* the wrong shape, the test run goes on, the test case has its result and
\* that result holds no prediction.
C10_FailureNeverAborts ==
    (completion # NoCompletion /\ WrongShape(completion)) =>
        /\ pc # "crashed"
        /\ Len(results) = test_num
        /\ results[test_num].predictions = <<>>

\* C10's case: the test run was left by an exception on a payload whose
\* "related" member is null.
C10_Witness ==
    /\ pc = "crashed"
    /\ completion.kind = "object"
    /\ completion.related.type = "null"
    /\ Len(results) < Len(AllTestCases)

\* C11: a prediction is in the good pool iff it is held and its score is
\* above 0.2, and in the bad pool iff it is not held; a held prediction with
\* a score of at most 0.2 (every held WEAK_SIGNAL) is recorded among its
\* test case's predictions and counted, but is in neither pool.
C11_PoolClassification ==
    LET preds == Flatten(results)
        InPool(pool, p) == \E k \in 1..Len(pool) : pool[k] = p
    IN  /\ all_good = SelectSeq(preds, LAMBDA p :
                          p.held /\ Tenths(p.profit) > 2)
        /\ all_bad = SelectSeq(preds, LAMBDA p : ~p.held)
        /\ \A k \in 1..Len(preds) :
               (preds[k].held /\ preds[k].relationship = "WEAK_SIGNAL") =>
                   /\ ~InPool(all_good, preds[k])
                   /\ ~InPool(all_bad, preds[k])
        /\ (pc \in {"refine", "save"} /\ iterations # <<>>) =>
               /\ Last(iterations).total_predictions = Len(preds)
               /\ good_examples = all_good
               /\ bad_examples = all_bad

\* C11's case: a finished test run holds a held WEAK_SIGNAL next to a good
\* and a bad prediction.
C11_Witness ==
    /\ pc \in {"refine", "save"}
    /\ Len(good_examples) = 1
    /\ Len(bad_examples) = 1
    /\ Last(iterations).total_predictions = 3
    /\ \E k \in 1..Len(Flatten(results)) :
           /\ Flatten(results)[k].held
           /\ Flatten(results)[k].relationship = "WEAK_SIGNAL"

\* The places (counted from 0) where text occurs in s
Occurrences(s, text) ==
    {i \in 0..(Len(s) - Len(text)) :
        /\ SubSeq(s, i + 1, i + 1) = SubSeq(text, 1, 1)
        /\ SubSeq(s, i + 1, i + Len(text)) = text}

\* "Relationship Types:" occurs in the prompt and "Return JSON" after it.
AnchorPair(prompt) ==
    \E i \in Occurrences(prompt, "Relationship Types:") :
        \E j \in Occurrences(prompt, "Return JSON") : i < j

\* The service call failed, or its text is empty or not above 100 characters.
NoUsableAnswer(mresp) == mresp.kind = "error" \/ Len(mresp.body) <= 100

IsMutatorCall == fn_call.fn = "mutate_prompt_with_llm"

\* C12: whenever the mutator's service call fails, or the answer is empty or
\* too short, or the anchors are not found in the candidate,
\* mutate_prompt_with_llm returns the candidate unchanged and raises nothing
\* (every call returns); the controller goes on to retest the returned
\* candidate.
C12_MutationNoOpSafe ==
    /\ []((pc = "call" /\ IsMutatorCall) => ENABLED MutatePrompt)
    /\ []((IsMutatorCall /\ fn_call.returned
              /\ (NoUsableAnswer(fn_call.mresp) \/ ~AnchorPair(fn_call.current_prompt)))
             => fn_call.result = fn_call.current_prompt)
    /\ [][pc = "mutate" =>
              /\ pc' = "retest"
              /\ fn_call'.returned
              /\ fn_call'.current_prompt = new_prompt
              /\ new_prompt' = fn_call'.result
              /\ test_num' = 0 /\ results' = <<>>
              /\ UNCHANGED <<iteration, iterations>>]_vars

\* C12's case: a long enough answer for a candidate that holds the start
\* anchor (not at its very beginning) but no output anchor after it.
C12_Witness ==
    /\ pc = "returned"
    /\ IsMutatorCall
    /\ fn_call.mresp.kind = "text"
    /\ Len(fn_call.mresp.body) > 100
    /\ Find(fn_call.current_prompt, "Relationship Types:") > 0
    /\ ~AnchorPair(fn_call.current_prompt)
    /\ fn_call.result = fn_call.current_prompt

\* The number of mutation entries in a changes-made list.
MutationEntries(changes_made) ==
    Len(SelectSeq(changes_made,
                  LAMBDA c : c = "Applied LLM-based prompt mutation"))

\* C13: a round in which the mutator returned the candidate unchanged does
\* not record a mutation as applied: a mutation entry is in the round's
\* changes-made list only when the candidate text was modified, and never
\* more than once.
C13_MutationRecordedOnlyIfApplied ==
    /\ \A k \in 1..Len(iterations) :
           MutationEntries(iterations[k].changes_made) <= 1
    /\ (pc \in {"refine", "save", "done"} /\ Len(iterations) >= 2
           /\ IsMutatorCall
           /\ MutationEntries(Last(iterations).changes_made) > 0) =>
           fn_call.result # fn_call.current_prompt

\* C13's case: a recorded round whose mutator got a 40-character answer and
\* returned the candidate unchanged, with the mutation listed as applied.
C13_Witness ==
    /\ pc = "done"
    /\ Len(iterations) >= 2
    /\ IsMutatorCall
    /\ fn_call.mresp.kind = "text"
    /\ Len(fn_call.mresp.body) = 40
    /\ fn_call.result = fn_call.current_prompt
    /\ MutationEntries(Last(iterations).changes_made) = 1


\* The lines of a text
RECURSIVE Lines(_)
Lines(s) ==
    LET i == Find(s, "\n")
    IN  IF i < 0 THEN <<s>> ELSE <<SubSeq(s, 1, i)>> \o Lines(From(s, i + 1))

\* The line is "Example n:" for a number n from 1 to 9
IsExampleLine(line) ==
    \E n \in 1..9 : line = "Example " \o Str(n) \o ":"

\* The exemplars of a text, in the order of the text: for each line
\* "Example n:" the record of what that line and the five after it show
ExemplarsOf(block) ==
    LET lines == Lines(block)
        at == SelectSeq([l \in 1..Len(lines) |-> l],
                        LAMBDA l : IsExampleLine(lines[l]) /\ l + 5 <= Len(lines))
    IN  [i \in 1..Len(at) |->
            [title        |-> lines[at[i]],
             source       |-> lines[at[i] + 1],
             related      |-> lines[at[i] + 2],
             relationship |-> lines[at[i] + 3],
             reasoning    |-> lines[at[i] + 4],
             outcomes     |-> lines[at[i] + 5]]]

\* What the i-th exemplar shows of the prediction p: the first 80
\* characters of the two questions, the relationship, the reasoning and
\* the two outcomes
Showing(i, p) ==
    [title        |-> "Example " \o Str(i) \o ":",
     source       |-> "Source: \"" \o Slice(p.source.question, 80) \o "\"",
     related      |-> "Related: \"" \o Slice(p.related.question, 80) \o "\"",
     relationship |-> "Relationship: " \o p.relationship,
     reasoning    |-> "Reasoning: " \o p.reasoning,
     outcomes     |-> "+ Source>" \o p.source.outcome \o ", Related>"
                      \o p.related.outcome]

FewShotReturned ==
    /\ fn_call.fn = "build_few_shot_section"
    /\ fn_call.returned

\* C14: build_few_shot_section returns the empty text for an empty list;
\* otherwise the block holds exactly min(len(list), max_examples) exemplars,
\* numbered 1..k, the i-th rendering the i-th prediction of the list as it
\* came: nothing is re-ranked and a repeated prediction is rendered again.
C14_FewShotFirstInOrder ==
    FewShotReturned =>
        LET good == fn_call.examples
            shown == ExemplarsOf(fn_call.result)
        IN  IF good = <<>> THEN fn_call.result = ""
            ELSE /\ fn_call.result # ""
                 /\ Len(shown) = Min(Len(good), fn_call.max_examples)
                 /\ Len(Lines(fn_call.result)) = 1 + 7 * Len(shown)
                 /\ \A i \in 1..Len(shown) : shown[i] = Showing(i, good[i])

\* A list longer than max_examples whose first two predictions are the same
\* and whose last differs from the first
C14_Witness ==
    /\ FewShotReturned
    /\ Len(fn_call.examples) > fn_call.max_examples
    /\ fn_call.max_examples >= 2
    /\ fn_call.examples[1] = fn_call.examples[2]
    /\ Last(fn_call.examples) # fn_call.examples[1]
    /\ Len(ExemplarsOf(fn_call.result)) = fn_call.max_examples

WarningsReturned ==
    /\ fn_call.fn = "build_warnings_section"
    /\ fn_call.returned

\* The place in bad of the first prediction of the category c
FirstOf(bad, c) ==
    CHOOSE i \in 1..Len(bad) :
        /\ bad[i].relationship = c
        /\ \A j \in 1..(i - 1) : bad[j].relationship # c

\* The groups of a warnings block: the three lines of each
GroupsOf(block) ==
    LET lines == Lines(block)
    IN  [g \in 1..((Len(lines) - 1) \div 3) |->
            [head    |-> lines[3 * g - 1],
             bad     |-> lines[3 * g],
             reality |-> lines[3 * g + 1]]]

\* The categories of the list in the order of their first occurrence
CategoriesOf(bad) ==
    LET first == SelectSeq([i \in 1..Len(bad) |-> i],
                           LAMBDA i : FirstOf(bad, bad[i].relationship) = i)
    IN  [g \in 1..Len(first) |-> bad[first[g]].relationship]

\* The number of predictions of the category c in the list
CountOf(bad, c) == Cardinality({i \in 1..Len(bad) : bad[i].relationship = c})

\* What a group shows of the category c, its count n and its
\* representative ex: the first 40 characters of the two questions and the
\* two outcomes
Grouping(c, n, ex) ==
    [head    |-> "- " \o c \o ": " \o Str(n) \o " wrong predictions",
     bad     |-> "  Bad: \"" \o Slice(ex.source.question, 40) \o "\" > \""
                 \o Slice(ex.related.question, 40) \o "\"",
     reality |-> "  Reality: Source=" \o ex.source.outcome \o ", Related="
                 \o ex.related.outcome]

RECURSIVE SumCounts(_, _, _)
SumCounts(bad, categories, k) ==
    IF k = 0 THEN 0
    ELSE SumCounts(bad, categories, k - 1) + CountOf(bad, categories[k])

\* C15: build_warnings_section returns the empty text for an empty list;
\* otherwise the block has one group for each distinct relationship category
\* of the list, the groups ordered by the first occurrence of their category,
\* each with the number of bad predictions of the category (the counts sum to
\* the length of the list) and the first bad prediction of the category as
\* its representative.
C15_WarningsGroupedByCategory ==
    WarningsReturned =>
        LET bad == fn_call.examples
            block == fn_call.result
            groups == GroupsOf(block)
            categories == CategoriesOf(bad)
        IN  IF bad = <<>> THEN block = ""
            ELSE /\ Len(Lines(block)) = 3 * Len(groups) + 1
                 /\ Len(groups) = Cardinality({bad[i].relationship : i \in 1..Len(bad)})
                 /\ Len(groups) = Len(categories)
                 /\ \A g \in 1..Len(groups) :
                       groups[g] = Grouping(categories[g], CountOf(bad, categories[g]),
                                            bad[FirstOf(bad, categories[g])])
                 /\ SumCounts(bad, categories, Len(categories)) = Len(bad)

\* Two categories interleaved, the first with two different predictions
C15_Witness ==
    /\ WarningsReturned
    /\ Len(fn_call.examples) >= 3
    /\ fn_call.examples[1].relationship # fn_call.examples[2].relationship
    /\ fn_call.examples[3].relationship = fn_call.examples[1].relationship
    /\ fn_call.examples[3] # fn_call.examples[1]
    /\ Len(GroupsOf(fn_call.result)) = 2
    /\ CountOf(fn_call.examples, fn_call.examples[1].relationship) >= 2

\* The tokens optimize() (lines 667-668) and run_prompt (lines 295-300)
\* substitute
InsertionTokens ==
    {"{few_shot_section}", "{warnings_section}", "{source_question}",
     "{source_yes}", "{source_no}", "{source_description}"}

BlockReturned ==
    /\ fn_call.fn \in {"build_few_shot_section", "build_warnings_section"}
    /\ fn_call.returned

\* C16: the block build_few_shot_section or build_warnings_section returns
\* never contains an insertion-point token literally, so that no later
\* substitution of optimize() or run_prompt rewrites text injected with it.
C16_BlocksHoldNoInsertionToken ==
    BlockReturned =>
        \A token \in InsertionTokens : Find(fn_call.result, token) < 0

\* A block rendered from a prediction as the tester records it: a good one
\* whose reasoning holds a token, or a bad one whose relationship is a token
C16_Witness ==
    /\ BlockReturned
    /\ \E token \in InsertionTokens : Find(fn_call.result, token) >= 0
    /\ \/ /\ fn_call.fn = "build_few_shot_section"
          /\ fn_call.examples = GoodExamples(fn_call.examples)
          /\ \E token \in InsertionTokens :
                Find(fn_call.examples[1].reasoning, token) >= 0
       \/ /\ fn_call.fn = "build_warnings_section"
          /\ fn_call.examples = BadExamples(fn_call.examples)
          /\ fn_call.examples[1].relationship \in InsertionTokens

\* C17: when the data stage yields no usable group the run aborts before
\* any iteration: it never leaves the data stage for a test, and the aborted
\* run has made no call of the generative service (neither a test case nor
\* the mutator), has created no iteration record and has written no
\* best-candidate artifact or report.
C17_AbortWithoutUsableGroups ==
    /\ market_sets = <<>> => pc \in {"load", "aborted", "crashed"}
    /\ pc = "aborted" => market_sets = <<>>
    /\ (market_sets = <<>> /\ pc # "load") =>
          /\ completion = NoCompletion
          /\ mutator_calls = 0
          /\ fn_call = NoCall
          /\ test_num = 0
          /\ iteration = 0
          /\ iterations = <<>>
          /\ best_prompt = ""
          /\ saved = NoReport

C17_Witness ==
    /\ pc = "aborted"
    /\ market_sets = <<>>
    /\ iterations = <<>>
    /\ saved = NoReport

\* The bad predictions of the test whose results are at hand
BadOfTest == SelectSeq(Flatten(results), LAMBDA p : ~p.held)

\* C18 as a step: the round that starts with the record of the preceding
\* test as the last one calls for the mutator exactly when it is round 2 or
\* later or that record's accuracy is below 40; the mutator is only ever
\* called in a round that called for it, once, and with the accuracy, the
\* profit score and the bad predictions of that preceding test.
MutatorInvocationStep ==
    /\ (pc = "refine" /\ pc' # "refine") =>
          /\ Last(iterations).iteration = iteration - 1
          /\ pc' \in {"mutate", "retest"}
          /\ pc' = "mutate" <=>
                (iteration >= 2 \/ FLt(Last(iterations).accuracy, Lit(40, 1)))
    /\ mutator_calls' # mutator_calls =>
          /\ pc = "mutate" /\ pc' = "retest"
          /\ mutator_calls' = mutator_calls + 1
          /\ IsMutatorCall'
          /\ fn_call'.accuracy = Last(iterations).accuracy
          /\ fn_call'.profit = Last(iterations).profit_score
          /\ fn_call'.bad_examples = BadOfTest
          /\ Last(iterations).correct_predictions
                + Len(fn_call'.bad_examples) = Last(iterations).total_predictions
    /\ mutator_calls' <= iteration'
    /\ pc' \in {"refine", "mutate"} => mutator_calls' < iteration'

\* C18: in refinement round i the mutator is invoked if and only if i >= 2
\* or the accuracy of the immediately preceding test (the baseline for
\* i = 1) is below 40; it is invoked at most once per round and is seeded
\* with the metrics and the bad predictions of that same preceding test.
C18_MutatorInvocation == [][MutatorInvocationStep]_vars

\* Round 1 mutated because the baseline scored below 40, with the baseline's
\* bad predictions as the seed
C18_Witness ==
    /\ pc = "retest"
    /\ iteration = 1
    /\ mutator_calls = 1
    /\ IsMutatorCall
    /\ fn_call.bad_examples # <<>>
    /\ FLt(fn_call.accuracy, Lit(40, 1))
    /\ Len(iterations) = 1

\* The good predictions of the test whose results are at hand
GoodOfTest ==
    SelectSeq(Flatten(results), LAMBDA p : p.held /\ FGt(p.profit, Lit(2, 10)))

\* The original template with the blocks of the test whose results are at
\* hand, and of nothing else
FreshCandidate ==
    Replace(Replace(BASE_PROMPT, "{few_shot_section}",
                    build_few_shot_section(GoodOfTest, config.few_shot_examples)),
            "{warnings_section}", build_warnings_section(BadOfTest))

\* The text with what lies between its first "Relationship Types:" and its
\* first "Return JSON" after it replaced by the body
Rewritten(prompt, body) ==
    LET start == Find(prompt, "Relationship Types:")
        end   == Find(prompt, "Return JSON")
    IN  SubSeq(prompt, 1, start) \o Strip(body) \o "\n\n" \o From(prompt, end)

\* C19 as a step: the candidate a round builds is the original template with
\* the blocks of the preceding test only; the mutator is given that
\* candidate and the round's candidate is what it returns, the same text or
\* the text with its definitions region rewritten; the candidate is not
\* changed while it is tested.
NotCumulativeStep ==
    /\ (pc = "refine" /\ pc' # "refine") => new_prompt' = FreshCandidate
    /\ pc = "mutate" =>
          /\ new_prompt = FreshCandidate
          /\ fn_call'.current_prompt = FreshCandidate
          /\ new_prompt' = fn_call'.result
          /\ \/ new_prompt' = FreshCandidate
             \/ /\ AnchorPair(FreshCandidate)
                /\ new_prompt' = Rewritten(FreshCandidate, fn_call'.mresp.body)
    /\ pc = "retest" => new_prompt' = new_prompt

\* C19: refinements are not cumulative: the candidate built in round i is
\* the original template with the exemplar and warning blocks computed only
\* from the good and bad predictions of the immediately preceding test,
\* optionally passed through this round's mutator; it carries nothing of
\* earlier rounds' candidates or of the best candidate.
C19_RefinementsNotCumulative == [][NotCumulativeStep]_vars

\* Round 2 after a round 1 whose candidate had exemplars and was mutated and
\* whose test gave no good prediction: round 2's candidate has no exemplar
\* and its definitions region is the template's, while the best candidate
\* still is another text.
C19_Witness ==
    /\ pc = "mutate"
    /\ iteration = 2
    /\ Len(iterations) = 2
    /\ \E n \in 1..config.few_shot_examples :
          \E k \in 1..Len(iterations[2].changes_made) :
              iterations[2].changes_made[k] = "Added " \o Str(n) \o " few-shot examples"
    /\ mutator_calls = 1
    /\ fn_call.result # fn_call.current_prompt
    /\ Find(new_prompt, "Example 1:") < 0
    /\ Find(new_prompt, "- IMPLIES: If this market YES > source YES") >= 0
    /\ best_prompt # new_prompt

\* The round's mutator call has returned a text other than the candidate
\* it was given, and that text is being retested
MutationApplied ==
    /\ pc = "retest"
    /\ IsMutatorCall
    /\ fn_call.returned
    /\ fn_call.result # fn_call.current_prompt
    /\ new_prompt = fn_call.result

\* The block is in the prompt
Present(block, prompt) == Find(prompt, block) >= 0

\* The output-schema anchor of a candidate: the place of the template's
\* "Return JSON", which is the last one of the candidate
SchemaAnchor(prompt) ==
    LET at == Occurrences(prompt, "Return JSON")
    IN  CHOOSE i \in at : \A j \in at : j <= i

\* The text before the start anchor, the rewritten region, and the text
\* from the output-schema anchor onward
Spliced(prompt, body) ==
    SubSeq(prompt, 1, Find(prompt, "Relationship Types:")) \o Strip(body)
    \o "\n\n" \o From(prompt, SchemaAnchor(prompt))

\* C20: a successful mutation replaces only the relationship-definitions
\* region: the retested candidate is the candidate's text before the start
\* anchor, the service's rewritten region, and the candidate's text from the
\* output-schema anchor onward; and the exemplar block and the warnings
\* block put into the candidate in that round are still present in it.
C20_MutationKeepsBlocks ==
    MutationApplied =>
        /\ AnchorPair(fn_call.current_prompt)
        /\ new_prompt = Spliced(fn_call.current_prompt, fn_call.mresp.body)
        /\ Present(build_few_shot_section(good_examples, config.few_shot_examples),
                   new_prompt)
        /\ Present(build_warnings_section(bad_examples), new_prompt)

\* A successful mutation of a candidate that held exemplars and warnings:
\* the splice is as described and neither block is left in the retested text
C20_Witness ==
    /\ MutationApplied
    /\ good_examples # <<>>
    /\ bad_examples # <<>>
    /\ Present(build_few_shot_section(good_examples, config.few_shot_examples),
               fn_call.current_prompt)
    /\ Present(build_warnings_section(bad_examples), fn_call.current_prompt)
    /\ new_prompt = Spliced(fn_call.current_prompt, fn_call.mresp.body)
    /\ Find(new_prompt, "Example 1:") < 0
    /\ Find(new_prompt, " wrong predictions") < 0

\* The <<group, index>> pairs a test run has to handle
SourcePairs ==
    {q \in (1..Len(market_sets)) \X (1..MaxTests) :
        /\ Len(market_sets[q[1]]) >= 3
        /\ q[2] <= config.tests_per_topic
        /\ q[2] <= Len(market_sets[q[1]])}

\* q comes before r in (group order, per-group index order)
Before(q, r) == q[1] < r[1] \/ (q[1] = r[1] /\ q[2] < r[2])

\* The k-th pair in that order
PairAt(k) ==
    CHOOSE q \in SourcePairs : Cardinality({r \in SourcePairs : Before(r, q)}) = k - 1

IsGood(p) == p.held /\ Tenths(p.profit) > 2

\* The entries of an answer that name a candidate of the call
Matched(answer, call) ==
    SelectSeq(answer.related.items,
              LAMBDA e : \E c \in 1..Len(call.candidates) :
                             call.candidates[c].id = e.marketId)

\* C21 as a step: a test case makes one service call, for the next source
\* in (group order, per-group index order); its result is appended to the
\* results, its predictions follow the order of the returned triples, and
\* its good and bad predictions are appended to the pools in that order, so
\* that results and pools are determined by the data and the answers.
EncounterOrderStep ==
    test_num' = test_num + 1 =>
        LET k     == test_num'
            call  == service_calls'[k]
            preds == results'[k].predictions
            named == IF completion'.kind = "object"
                     THEN Matched(completion', call) ELSE <<>>
        IN  /\ service_calls' = Append(service_calls, call)
            /\ Len(results') = k
            /\ SubSeq(results', 1, k - 1) = results
            /\ call.source = market_sets[PairAt(k)[1]][PairAt(k)[2]]
            /\ results'[k].source = call.source
            /\ Len(preds) = Len(named)
            /\ \A j \in 1..Len(preds) :
                  /\ preds[j].related.id = named[j].marketId
                  /\ preds[j].relationship = named[j].relationship
            /\ all_good' = all_good \o SelectSeq(preds, IsGood)
            /\ all_bad' = all_bad \o SelectSeq(preds, LAMBDA p : ~p.held)

\* C21: the test cases of a test run are evaluated strictly in (group order,
\* per-group index order), one service call at a time, and the results, the
\* good pool and the bad pool are each in that encounter order, within a
\* test case in the order of the service's returned triples; the run is
\* finished only when every pair has been handled, so fixed data and fixed
\* answers give the same results and pools.
C21_EncounterOrder ==
    /\ [][EncounterOrderStep]_vars
    /\ [](Len(service_calls) <= Cardinality(SourcePairs))
    /\ [](pc = "returned" =>
             /\ test_num = Cardinality(SourcePairs)
             /\ fn_call.result = <<results, all_good, all_bad>>)

\* Two groups with two sources each, predictions in every test case: the
\* third call is for the first item of the second usable group.
C21_Witness ==
    /\ pc = "returned"
    /\ Len(market_sets) = 3
    /\ config.tests_per_topic = 2
    /\ test_num = 4
    /\ service_calls[3].source = market_sets[3][1]
    /\ \A k \in 1..4 : Len(results[k].predictions) >= 2
    /\ Len(all_good) >= 2
    /\ Len(all_bad) >= 3

\* The calls of the test run whose source is an item of the g-th group (the
\* groups explored share no item)
CallsOf(g) ==
    SelectSeq(service_calls,
              LAMBDA call : \E i \in 1..Len(market_sets[g]) :
                                market_sets[g][i] = call.source)

\* C22: a group with fewer than 3 items yields no test case; a group with
\* n >= 3 items yields exactly min(tests_per_topic, n) test cases whose
\* sources are the group's first items in index order; the candidates of a
\* source are the first candidates_per_test items of the same group other
\* than the source: never the source, never an item of another group, never
\* more than candidates_per_test.
C22_TestCaseSelection ==
    /\ \A g \in 1..Len(market_sets) :
          LET markets == market_sets[g]
              calls   == CallsOf(g)
          IN  /\ Len(markets) < 3 => calls = <<>>
              /\ Len(calls) <= Min(config.tests_per_topic, Len(markets))
              /\ (pc = "returned" /\ Len(markets) >= 3) =>
                     Len(calls) = Min(config.tests_per_topic, Len(markets))
              /\ \A i \in 1..Len(calls) :
                    LET cands == calls[i].candidates
                    IN  /\ calls[i].source = markets[i]
                        /\ Len(cands) = Min(config.candidates_per_test,
                                            Len(markets) - 1)
                        /\ \A j \in 1..Len(cands) :
                              /\ cands[j] = markets[IF j < i THEN j ELSE j + 1]
                              /\ cands[j] # calls[i].source
                              /\ \A h \in 1..Len(market_sets) :
                                    (\E l \in 1..Len(market_sets[h]) :
                                         market_sets[h][l] = cands[j]) => h = g
    /\ \A k \in 1..Len(service_calls) :
          \E g \in 1..Len(market_sets) :
              \E i \in 1..Len(market_sets[g]) :
                  market_sets[g][i] = service_calls[k].source

\* A run over a group of 5, a group of 2 and a group of 3 with 4 tests per
\* group and 2 candidates per test: 4 + 0 + 3 test cases, and the third
\* source has the first two items of its group as candidates.
C22_Witness ==
    /\ pc = "returned"
    /\ Len(market_sets) = 3
    /\ config.tests_per_topic = 4
    /\ config.candidates_per_test = 2
    /\ Len(CallsOf(1)) = 4
    /\ Len(CallsOf(2)) = 0
    /\ Len(CallsOf(3)) = 3
    /\ service_calls[3].candidates = <<market_sets[1][1], market_sets[1][2]>>

\* The original template with empty exemplar and warnings blocks
UnmodifiedBaseline ==
    LET few_shot == Find(BASE_PROMPT, "{few_shot_section}")
        warnings == Find(BASE_PROMPT, "{warnings_section}")
    IN  SubSeq(BASE_PROMPT, 1, few_shot)
        \o SubSeq(BASE_PROMPT, few_shot + Len("{few_shot_section}") + 1, warnings)
        \o From(BASE_PROMPT, warnings + Len("{warnings_section}"))

\* The record holds the counts and the metrics of the test at hand, every
\* call of which was made with the given prompt
RecordOfTest(rec, prompt) ==
    LET preds   == Flatten(results)
        correct == Cardinality({k \in 1..Len(preds) : preds[k].held})
    IN  /\ \A k \in 1..Len(service_calls) : service_calls[k].prompt = prompt
        /\ Len(service_calls) = Len(results)
        /\ rec.total_predictions = Len(preds)
        /\ rec.correct_predictions = correct
        /\ IF preds = <<>> THEN FEq(rec.accuracy, Zero)
           ELSE Near(rec.accuracy, 100 * correct, Len(preds))

\* C23 as a step: the history changes only by one record being appended;
\* the first record has index 0 and holds the test of the unmodified
\* baseline, made before any mutator call; the record appended in round i
\* has index i and holds the test of that round's candidate.
HistoryStep ==
    iterations' # iterations =>
        /\ Len(iterations') = Len(iterations) + 1
        /\ SubSeq(iterations', 1, Len(iterations)) = iterations
        /\ Last(iterations').iteration = Len(iterations)
        /\ Last(iterations').iteration = iteration
        /\ IF iterations = <<>>
           THEN /\ pc = "baseline"
                /\ mutator_calls = 0
                /\ new_prompt = UnmodifiedBaseline
                /\ RecordOfTest(iterations'[1], UnmodifiedBaseline)
                /\ iterations'[1].changes_made = <<"Initial baseline test">>
           ELSE /\ pc = "retest"
                /\ iteration >= 1
                /\ RecordOfTest(Last(iterations'), new_prompt)
                /\ Last(iterations').changes_made = changes

\* C23: the history of iteration records is append-only: record 0 always
\* holds the metrics of the test of the unmodified baseline candidate, the
\* record appended by refinement round i has index i, the indices are
\* consecutive from 0, and no record is changed or removed by a later round;
\* the report holds the same history.
C23_HistoryAppendOnly ==
    /\ [][HistoryStep]_vars
    /\ [](\A k \in 1..Len(iterations) : iterations[k].iteration = k - 1)
    /\ [](iterations # <<>> =>
             iterations[1].changes_made = <<"Initial baseline test">>)
    /\ [](saved.written => saved.iterations = iterations)

\* A finished run of two rounds, the second of which tested a mutated
\* candidate and scored differently from the baseline: the history has the
\* records 0, 1, 2.
C23_Witness ==
    /\ pc = "done"
    /\ Len(iterations) = 3
    /\ iterations[3].iteration = 2
    /\ new_prompt # UnmodifiedBaseline
    /\ mutator_calls >= 1
    /\ ~FEq(iterations[1].accuracy, iterations[3].accuracy)
    /\ iterations[1].total_predictions # iterations[2].total_predictions
    /\ saved.iterations = iterations

\* C24 as a step: a test case makes one service call and, when that call
\* fails, the run goes on to the next test case with an empty result; the
\* call is for a source no earlier call of the test run was for; a mutator
\* call, failed or not, is followed by the retest.
NoRetryStep ==
    /\ service_calls' # service_calls =>
          \/ service_calls' = <<>> /\ test_num' = 0
          \/ /\ service_calls' = Append(service_calls, Last(service_calls'))
             /\ \A k \in 1..Len(service_calls) :
                   service_calls[k].source # Last(service_calls').source
             /\ completion'.kind # "object" =>
                   /\ pc' = pc
                   /\ test_num' = test_num + 1
                   /\ Len(results') = test_num'
                   /\ Last(results').predictions = <<>>
    /\ test_num' = test_num + 1 => Len(service_calls') = Len(service_calls) + 1
    /\ pc = "mutate" =>
          /\ pc' = "retest"
          /\ mutator_calls' = mutator_calls + 1
          /\ test_num' = 0
    /\ mutator_calls' # mutator_calls => pc = "mutate"

\* C24: no external operation is retried: within a test run the service is
\* called exactly once per test case whether the call succeeds or fails, and
\* within a refinement round the mutator's service call is made at most
\* once; after a failure the controller goes on to the next test case or to
\* the retest.
C24_NoRetry ==
    /\ [][NoRetryStep]_vars
    /\ [](Len(service_calls) = test_num + (IF pc = "crashed" /\ market_sets # <<>> THEN 1 ELSE 0))
    /\ []((pc \in {"refine", "mutate", "save", "done"} /\ iterations # <<>>) =>
             Len(service_calls) = Cardinality(SourcePairs))
    /\ [](mutator_calls <= iteration)

\* The mutator's call failed in round 1 and the retest went ahead; its first
\* test case failed in transport and the run is at the second test case,
\* each with one call.
C24_Witness ==
    /\ pc = "retest"
    /\ iteration = 1
    /\ mutator_calls = 1
    /\ IsMutatorCall
    /\ fn_call.mresp.kind = "error"
    /\ completion.kind = "transport_error"
    /\ test_num = 1
    /\ Len(service_calls) = 1
    /\ Cardinality(SourcePairs) = 2
    /\ results[1].predictions = <<>>

\* The record q is above the record r in (accuracy, mean score) order
Above(q, r) ==
    \/ FGt(q.accuracy, r.accuracy)
    \/ FEq(q.accuracy, r.accuracy) /\ FGt(q.profit_score, r.profit_score)

\* The earliest record no record is above
EarliestMaximum(history) ==
    CHOOSE k \in 1..Len(history) :
        /\ \A j \in 1..Len(history) : ~Above(history[j], history[k])
        /\ \A j \in 1..(k - 1) : Above(history[k], history[j])

\* C25 as a step: a record that is above every earlier record makes the
\* candidate just tested the best one; any other record leaves the best
\* candidate alone; the best accuracy never goes down.
BestIsMaximumStep ==
    /\ iterations' # iterations =>
          IF \A j \in 1..Len(iterations) : Above(Last(iterations'), iterations[j])
          THEN /\ best_prompt' = new_prompt
               /\ \A k \in 1..Len(service_calls) :
                     service_calls[k].prompt = best_prompt'
          ELSE best_prompt' = best_prompt
    /\ iterations' = iterations => best_prompt' = best_prompt
    /\ FGe(best_accuracy', best_accuracy)

\* C25: after the baseline and after every refinement round the best
\* (accuracy, mean score) is the lexicographic maximum of the pairs of all
\* records so far and the best candidate is the one tested in the earliest
\* iteration that attained it; the best accuracy never decreases and at
\* Done is at least the baseline's, and it is what the report holds.
C25_BestIsMaximum ==
    /\ [][BestIsMaximumStep]_vars
    /\ [](iterations # <<>> =>
             LET top == iterations[EarliestMaximum(iterations)]
             IN  /\ best_accuracy = top.accuracy
                 /\ best_profit = top.profit_score
                 /\ \A j \in 1..Len(iterations) :
                       /\ FGe(best_accuracy, iterations[j].accuracy)
                       /\ FEq(best_accuracy, iterations[j].accuracy) =>
                             FGe(best_profit, iterations[j].profit_score))
    /\ [](pc = "done" =>
             /\ FGe(best_accuracy, iterations[1].accuracy)
             /\ Shows(saved.summary.final_accuracy, best_accuracy)
             /\ saved.best_prompt = best_prompt)

\* Round 1 beat the baseline and round 2 only equalled round 1 with another
\* candidate: the best candidate at Done is round 1's.
C25_Witness ==
    /\ pc = "done"
    /\ Len(iterations) = 3
    /\ Above(iterations[2], iterations[1])
    /\ ~Above(iterations[3], iterations[2])
    /\ ~Above(iterations[2], iterations[3])
    /\ EarliestMaximum(iterations) = 2
    /\ best_prompt # new_prompt
    /\ best_accuracy = iterations[2].accuracy

\* The members of a sequence
Members(seq) == {seq[k] : k \in 1..Len(seq)}

\* pool holds, in their order, the predictions of preds that are in it
SubSequence(pool, preds) ==
    pool = SelectSeq(preds, LAMBDA p : p \in Members(pool))

\* The counts of a record and its accuracy are in range
InRange(rec) ==
    /\ 0 <= rec.correct_predictions
    /\ rec.correct_predictions <= rec.total_predictions
    /\ FGe(rec.accuracy, Zero)
    /\ FGe(Lit(100, 1), rec.accuracy)

\* C26: in every test run the good pool and the bad pool are disjoint
\* sub-sequences of the run's predictions, every good prediction is held,
\* the size of the bad pool is the number of predictions minus the number
\* of held ones, and 0 <= correct <= total, so that the recorded accuracy
\* lies between 0 and 100.
C26_PoolCounting ==
    LET preds   == Flatten(results)
        correct == Cardinality({k \in 1..Len(preds) : preds[k].held})
    IN  /\ SubSequence(all_good, preds)
        /\ SubSequence(all_bad, preds)
        /\ Members(all_good) \cap Members(all_bad) = {}
        /\ \A k \in 1..Len(all_good) : all_good[k].held
        /\ Len(all_good) <= correct
        /\ Len(all_bad) = Len(preds) - correct
        /\ \A k \in 1..Len(iterations) : InRange(iterations[k])
        /\ (pc \in {"refine", "mutate", "save", "done"} /\ iterations # <<>>) =>
              /\ Last(iterations).total_predictions = Len(preds)
              /\ Last(iterations).correct_predictions = correct
              /\ Len(bad_examples) = Last(iterations).total_predictions
                                        - Last(iterations).correct_predictions
              /\ Len(good_examples) <= Last(iterations).correct_predictions

\* A refinement round's test with a good, a bad and a held prediction that
\* is in neither pool has been recorded with an accuracy strictly between 0
\* and 100.
C26_Witness ==
    /\ pc = "done"
    /\ Last(iterations).iteration >= 1
    /\ Len(good_examples) >= 1
    /\ Len(bad_examples) >= 1
    /\ Len(good_examples) + Len(bad_examples) < Last(iterations).total_predictions
    /\ FGt(Last(iterations).accuracy, Zero)
    /\ FGt(Lit(100, 1), Last(iterations).accuracy)
====
